---- MODULE Spec2Model ----
(***************************************************************************)
(* Model of the PredictionTrader sidecar engine.                           *)
(*                                                                         *)
(*   Part J  UI WebSocket fan-out manager                                  *)
(*           apps/engine/adapters/api/websocket_routes.py    (SpecWs)      *)
(*   Part H  Ledger writer (single queue writer over SQLite)               *)
(*           apps/engine/adapters/db/writer.py               (SpecDb)      *)
(*   Part C  Shared rate limiter                                           *)
(*           apps/engine/connectors/kalshi/rate_limit.py     (SpecRl)      *)
(*   Part D  HTTP client request loop                                      *)
(*           apps/engine/connectors/kalshi/client.py         (SpecHttp)    *)
(*   Part E  Market-data stream state machine                              *)
(*           apps/engine/connectors/kalshi/client.py         (SpecStream)  *)
(*   Part G  Boot rehydration and the readiness gate                       *)
(*           apps/engine/services/state/rehydration.py       (SpecRh)      *)
(*   Part K  Lifecycle composition root                                    *)
(*           apps/engine/runtime/composition_root.py         (SpecRoot)    *)
(*   Part A  Auth nonce guard of the local REST routes                     *)
(*           apps/engine/adapters/api/auth.py                (SpecAuth)    *)
(*   Part M: apps/engine/connectors/kalshi/client.py         (SpecMd)      *)
(*           process_market_data_message                                   *)
(*                                                                         *)
(* Each part has its own initial predicate, next-state relation and        *)
(* specification; a part's actions leave the other part's variables        *)
(* unchanged.                                                              *)
(***************************************************************************)
EXTENDS Integers, Sequences, FiniteSets, TLC

VARIABLES
    clients,    \* ApiWebSocketConnectionManager._clients: client_id -> _ClientState
    wsNow,      \* the wall clock read by datetime.now(UTC) in the manager
    streamed,   \* number of stream_event calls made so far (bounds the run)
    wsOp,       \* the manager call that produced the current state: its
                \* arguments, what it sent and the branch it took per client
    writer_queue,   \* SQLiteWriteWorker._queue (items in FIFO order)
    worker_task,    \* SQLiteWriteWorker._worker_task: None, running, done, failed
    conn,           \* SQLiteWriteWorker._conn: None or open
    worker,         \* where _run / _write_with_retries stands: pc, item, attempt
    stopper,        \* where a stop() call stands
    event_ledger,   \* table event_ledger: (source_system, source_event_id) -> row
    ingest_poison_messages, \* table ingest_poison_messages, in insertion order
    db_now,         \* the wall clock as _utc_now_iso last read it
    submitted,      \* number of submit() calls that have completed
    handled,        \* the submissions the worker has finished with, in order
    rl_config,      \* SharedRateLimiter._config: <<>> before construction
    rl_events,      \* _SlidingWindowBucket._events of each bucket
    rl_metrics,     \* SharedRateLimiter._metrics
    rl_now,         \* time.monotonic(), in clock ticks
    rl_sleepers,    \* per caller: the sleep between the two locked sections
    rl_calls,       \* what each acquire has done so far, in lock order
    http,           \* KalshiClient._request: the client and where a call stands
    http_attempts,  \* the attempts of the current _request call, in order
    stream,         \* stream_market_data: the generator's locals and the
                    \* yield it is suspended at
    stream_envelopes,   \* the envelopes yielded in the current session
    stream_health,      \* the health_state envelopes yielded so far
    stream_now,         \* time.monotonic() as the generator reads it
    readiness_gate,     \* StateReadinessGate: _ready, _last_error,
                        \* _last_rehydrated_at
    state_orders,       \* table state_orders: order_id -> row
    state_positions,    \* table state_positions: position_key -> row
    reconciliation_event_ledger, \* table reconciliation_event_ledger, in
                        \* ledger_id order
    rehydration_runs,   \* table rehydration_runs, in run_id order
    rehydrator,         \* where the boot_rehydrate call stands and its locals
    rh_now,             \* the wall clock as _now_iso last read it
    rh_asserted,        \* what the last assert_ready call did, and the
                        \* number of calls so far modulo 2
    lifecycle,          \* SidecarCompositionRoot._state (LifecycleState)
    resolved,           \* SidecarCompositionRoot._resolved: key -> what the
                        \* factory returned
    root,               \* the root's configuration and where start() and
                        \* shutdown() stand
    root_events,        \* the stages and hooks invoked so far, in order
    published,          \* the states handed to health_publisher, in order
    guard,              \* AuthNonceGuard: expected_token, last_nonce_by_token
    guard_accepted,     \* the nonces of the validate calls that returned
    guard_result,       \* the last validate call: headers and outcome
    ws_offered,     \* per client id: the events stream_event was called with
                    \* while the client was subscribed to their topic
    ws_sent,        \* per client id: the frames its flush calls have sent
    ws_mark,        \* per client id: the lengths of ws_offered and ws_sent
                    \* when connect last registered the id
    event_bus,      \* the envelopes handed to event_publisher.publish
    md_call         \* the last process_market_data_message call: message,
                    \* outcome, what it returned; the calls so far

wsVars == <<clients, wsNow, streamed, wsOp>>

dbVars == <<writer_queue, worker_task, conn, worker, stopper, event_ledger,
            ingest_poison_messages, db_now, submitted, handled>>

rlVars == <<rl_config, rl_events, rl_metrics, rl_now, rl_sleepers, rl_calls>>

httpVars == <<http, http_attempts>>

streamVars == <<stream, stream_envelopes, stream_health, stream_now>>

rhVars == <<readiness_gate, state_orders, state_positions,
            reconciliation_event_ledger, rehydration_runs, rehydrator,
            rh_now, rh_asserted>>

rootVars == <<lifecycle, resolved, root, root_events, published>>

authVars == <<guard, guard_accepted, guard_result>>

\* The record of what each client was offered and sent; kept by the
\* specifications that follow a client's frames (SpecWsFifo).
wsLogVars == <<ws_offered, ws_sent, ws_mark>>

mdVars == <<event_bus, md_call>>

vars == <<clients, wsNow, streamed, wsOp,
          writer_queue, worker_task, conn, worker, stopper, event_ledger,
          ingest_poison_messages, db_now, submitted, handled,
          rl_config, rl_events, rl_metrics, rl_now, rl_sleepers, rl_calls,
          http, http_attempts,
          stream, stream_envelopes, stream_health, stream_now,
          readiness_gate, state_orders, state_positions,
          reconciliation_event_ledger, rehydration_runs, rehydrator,
          rh_now, rh_asserted,
          lifecycle, resolved, root, root_events, published,
          guard, guard_accepted, guard_result,
          ws_offered, ws_sent, ws_mark,
          event_bus, md_call>>

\* What the actions of one part leave alone.
notWsVars == <<dbVars, rlVars, httpVars, streamVars, rhVars,
    rootVars, authVars, mdVars>>

notDbVars == <<wsVars, rlVars, httpVars, streamVars, rhVars,
    rootVars, authVars,
    wsLogVars, mdVars>>

notRlVars == <<wsVars, dbVars, httpVars, streamVars, rhVars,
    rootVars, authVars,
    wsLogVars, mdVars>>

notHttpVars == <<wsVars, dbVars, rlVars, streamVars, rhVars,
    rootVars, authVars,
    wsLogVars, mdVars>>

notStreamVars == <<wsVars, dbVars, rlVars, httpVars, rhVars,
    rootVars, authVars,
    wsLogVars, mdVars>>

notRhVars == <<wsVars, dbVars, rlVars, httpVars, streamVars,
    rootVars, authVars,
    wsLogVars, mdVars>>

notRootVars == <<wsVars, dbVars, rlVars, httpVars, streamVars, rhVars,
                 authVars, wsLogVars, mdVars>>

notAuthVars == <<wsVars, dbVars, rlVars, httpVars, streamVars, rhVars,
                 rootVars, wsLogVars, mdVars>>

notMdVars == <<wsVars, dbVars, rlVars, httpVars, streamVars, rhVars,
               rootVars, authVars, wsLogVars>>

(***************************************************************************)
(* Bounds of the model.                                                    *)
(***************************************************************************)
\* ApiWebSocketConnectionManager(max_queue_size=...): the tests run with 2.
max_queue_size == 2

\* stream_event is called at most this many times in a run: enough to fill
\* a queue and then meet backpressure.
MaxStreamed == max_queue_size + 1

\* The manager's clock runs from 0 to MaxWsNow, in ticks.
MaxWsNow == 2

\* ApiWebSocketConnectionManager(heartbeat_interval_seconds=...), in ticks.
heartbeat_interval == 1

NoneVal == "None"

\* SQLiteWriteWorker(queue_maxsize=...): capacity of the inbound queue.
queue_maxsize == 2

\* SQLiteWriteWorker(lock_retry_limit=...): the tests run with 2.
lock_retry_limit == 1

\* submit() completes at most this many times in a run: enough to fill the
\* queue, so that a further put (an event's behind the sentinel, or the
\* sentinel's) has to wait.
MaxSubmits == queue_maxsize

\* The readings of the ledger writer's clock.
DbTimes == 0..1

(***************************************************************************)
(* Part H: InboundEvent, canonical JSON, the two tables                    *)
(***************************************************************************)
\* A payload is a dict: its (key, value) items in insertion order, the keys
\* distinct; << <<2, 1>>, <<1, 2>> >> is {"y": 1, "x": 2}.
\* The items of a dict in ascending key order (json.dumps sort_keys=True).
RECURSIVE SortItems(_)
SortItems(items) ==
    IF items = <<>> THEN <<>>
    ELSE LET k == CHOOSE i \in 1..Len(items) :
                     \A j \in 1..Len(items) : items[i][1] <= items[j][1]
         IN  <<items[k]>> \o SortItems(SubSeq(items, 1, k - 1)
                                          \o SubSeq(items, k + 1, Len(items)))

\* _to_json: the canonical text, as the sorted item list it spells out.
to_json(payload) == SortItems(payload)

\* hashlib.sha256(payload_json).hexdigest()
sha256(payload_json) == <<"sha256", payload_json>>

\* InboundEvent values handed to submit; an empty string is a missing id.
InboundEvent(system, id, payload, sequence, emitted_at) ==
    [source_system |-> system, source_event_id |-> id, payload |-> payload,
     source_sequence |-> sequence, source_emitted_at |-> emitted_at]

InboundEvents ==
    { InboundEvent("kalshi", "evt-1", << <<1, 1>> >>, <<>>, <<>>),
      InboundEvent("kalshi", "evt-1", << <<2, 1>>, <<1, 2>> >>, <<7>>, <<0>>),
      InboundEvent("kalshi", "evt-2", << <<1, 1>> >>, <<>>, <<>>),
      InboundEvent("", "", << <<1, 1>> >>, <<>>, <<>>),
      InboundEvent("kalshi", "", << <<1, 1>> >>, <<>>, <<>>) }

\* `not event.source_system or not event.source_event_id`
MissingIds(event) == event.source_system = "" \/ event.source_event_id = ""

KeyOf(event) == <<event.source_system, event.source_event_id>>

\* COALESCE(a, b) on optional values (<<>> is NULL).
Coalesce(a, b) == IF a # <<>> THEN a ELSE b

\* The row INSERT ... VALUES (...) writes when the key is new.
InsertedRow(event, now) ==
    [payload_json         |-> to_json(event.payload),
     payload_sha256       |-> sha256(to_json(event.payload)),
     source_sequence      |-> event.source_sequence,
     source_emitted_at    |-> event.source_emitted_at,
     ingest_first_seen_at |-> now,
     ingest_last_seen_at  |-> now,
     ingest_attempt_count |-> 1,
     process_state        |-> "pending",
     process_error        |-> NoneVal,
     processed_at         |-> <<>>]

\* INSERT OR REPLACE in place of the upsert: the old row is forgotten.
UpdatedRow_replace(row, event, now) == InsertedRow(event, now)

\* An upsert without the dead_letter CASE: the row is always made pending.
UpdatedRow_not_sticky(row, event, now) ==
    LET excluded == InsertedRow(event, now)
    IN  [row EXCEPT
            !.source_sequence = Coalesce(excluded.source_sequence, @),
            !.source_emitted_at = Coalesce(excluded.source_emitted_at, @),
            !.payload_json = excluded.payload_json,
            !.payload_sha256 = excluded.payload_sha256,
            !.ingest_last_seen_at = excluded.ingest_last_seen_at,
            !.ingest_attempt_count = @ + 1,
            !.process_state = "pending",
            !.process_error = NoneVal,
            !.processed_at = <<>>]

\* The row ON CONFLICT ... DO UPDATE SET leaves when the key exists.
UpdatedRow(row, event, now) ==
    LET excluded == InsertedRow(event, now)
        sticky == row.process_state = "dead_letter"
    IN  [row EXCEPT
            !.source_sequence = Coalesce(excluded.source_sequence, @),
            !.source_emitted_at = Coalesce(excluded.source_emitted_at, @),
            !.payload_json = excluded.payload_json,
            !.payload_sha256 = excluded.payload_sha256,
            !.ingest_last_seen_at = excluded.ingest_last_seen_at,
            !.ingest_attempt_count = @ + 1,
            !.process_state = IF sticky THEN @ ELSE "pending",
            !.process_error = IF sticky THEN @ ELSE NoneVal,
            !.processed_at = IF sticky THEN @ ELSE <<>>]

\* _upsert_event once BEGIN IMMEDIATE has the lock: the table after COMMIT.
upsert_event(ledger, event, now) ==
    LET key == KeyOf(event)
    IN  [k \in DOMAIN ledger \cup {key} |->
            IF k # key THEN ledger[k]
            ELSE IF key \in DOMAIN ledger
                 THEN UpdatedRow(ledger[key], event, now)
                 ELSE InsertedRow(event, now)]

\* The row _record_poison inserts (an empty id is stored as NULL); `sid` is
\* the submission it belongs to.
ReasonMissing == <<"missing source_system/source_event_id">>

ReasonExhausted == <<"db lock retries exhausted", "database is locked">>

PoisonRow(event, sid, reason) ==
    [source_system   |-> IF event.source_system = "" THEN NoneVal
                         ELSE event.source_system,
     source_event_id |-> IF event.source_event_id = "" THEN NoneVal
                         ELSE event.source_event_id,
     reason          |-> reason,
     payload_json    |-> to_json(event.payload),
     sid             |-> sid]

(***************************************************************************)
(* Part H: SQLiteWriteWorker                                               *)
(***************************************************************************)
NoInbound == [source_system |-> NoneVal, source_event_id |-> NoneVal,
              payload |-> <<>>, source_sequence |-> <<>>,
              source_emitted_at |-> <<>>]

\* Queue items: a submitted event (sid: its place in submission order) or
\* the _STOP sentinel.
EventItem(event, sid) == [kind |-> "event", event |-> event, sid |-> sid]

STOP == [kind |-> "STOP", event |-> NoInbound, sid |-> 0]

\* The worker coroutine: not created, or at one of its positions.
WorkerAt(pc, item, attempt, reason) ==
    [pc |-> pc, event |-> item.event, sid |-> item.sid,
     attempt |-> attempt, reason |-> reason]

NoWorker == WorkerAt("none", STOP, 0, <<>>)

\* A stop() call: its position, whether it found a worker task, and how
\* many submit() calls had completed when it was made.
StopperAt(pc, started, mark) == [pc |-> pc, started |-> started, mark |-> mark]

\* What the worker did with a submission.
Handled(w, outcome, now) ==
    [sid |-> w.sid, event |-> w.event, outcome |-> outcome,
     attempts |-> w.attempt, at |-> now]

DbInitVars ==
    /\ writer_queue = <<>>
    /\ worker_task = NoneVal
    /\ conn = NoneVal
    /\ worker = NoWorker
    /\ stopper = StopperAt("idle", FALSE, 0)
    /\ event_ledger = <<>>
    /\ ingest_poison_messages = <<>>
    /\ db_now = 0
    /\ submitted = 0
    /\ handled = <<>>

\* start(): a second call while a task exists returns at once; otherwise
\* the connection is opened, the schema verified and the worker task created.
start ==
    /\ worker_task = NoneVal
    /\ stopper.pc = "idle"
    /\ conn' = "open"
    /\ worker_task' = "running"
    /\ worker' = WorkerAt("get", STOP, 0, <<>>)
    /\ UNCHANGED <<writer_queue, stopper, event_ledger, ingest_poison_messages,
                   db_now, submitted, handled>>
    /\ UNCHANGED notDbVars

\* start() raising StartupSchemaMismatch: the connection stays assigned and
\* no task is created.
start_schema_mismatch ==
    /\ worker_task = NoneVal
    /\ stopper.pc = "idle"
    /\ conn = NoneVal
    /\ conn' = "open"
    /\ UNCHANGED <<writer_queue, worker_task, worker, stopper, event_ledger,
                   ingest_poison_messages, db_now, submitted, handled>>
    /\ UNCHANGED notDbVars

\* asyncio.Queue.put: completes only while the queue is below maxsize.
QueueHasRoom == Len(writer_queue) < queue_maxsize

\* submit(event): the put completes.
submit(event) ==
    /\ submitted < MaxSubmits
    /\ QueueHasRoom
    /\ writer_queue' = Append(writer_queue, EventItem(event, submitted + 1))
    /\ submitted' = submitted + 1
    /\ UNCHANGED <<worker_task, conn, worker, stopper, event_ledger,
                   ingest_poison_messages, db_now, handled>>
    /\ UNCHANGED notDbVars

\* stop() is called: without a task it returns at once, otherwise it goes on
\* to put the sentinel.
stop_call ==
    /\ stopper.pc \in {"idle", "returned", "raised"}
    /\ stopper' = IF worker_task = NoneVal
                  THEN StopperAt("returned", FALSE, submitted)
                  ELSE StopperAt("put", TRUE, submitted)
    /\ UNCHANGED <<writer_queue, worker_task, conn, worker, event_ledger,
                   ingest_poison_messages, db_now, submitted, handled>>
    /\ UNCHANGED notDbVars

\* stop(): await self._queue.put(self._STOP)
stop_put ==
    /\ stopper.pc = "put"
    /\ QueueHasRoom
    /\ writer_queue' = Append(writer_queue, STOP)
    /\ stopper' = [stopper EXCEPT !.pc = "await"]
    /\ UNCHANGED <<worker_task, conn, worker, event_ledger,
                   ingest_poison_messages, db_now, submitted, handled>>
    /\ UNCHANGED notDbVars

\* stop() without the await on the worker task.
stop_await_no_wait ==
    /\ stopper.pc = "await"
    /\ worker_task' = NoneVal
    /\ conn' = NoneVal
    /\ worker' = NoWorker
    /\ stopper' = [stopper EXCEPT !.pc = "returned"]
    /\ UNCHANGED <<writer_queue, event_ledger, ingest_poison_messages,
                   db_now, submitted, handled>>
    /\ UNCHANGED notDbVars

\* stop(): await self._worker_task, then forget the task and close the
\* connection; the await re-raises what killed the worker.
stop_await ==
    /\ stopper.pc = "await"
    /\ worker_task \in {"done", "failed"}
    /\ IF worker_task = "done"
       THEN /\ worker_task' = NoneVal
            /\ conn' = NoneVal
            /\ worker' = NoWorker
            /\ stopper' = [stopper EXCEPT !.pc = "returned"]
       ELSE /\ stopper' = [stopper EXCEPT !.pc = "raised"]
            /\ UNCHANGED <<worker_task, conn, worker>>
    /\ UNCHANGED <<writer_queue, event_ledger, ingest_poison_messages,
                   db_now, submitted, handled>>
    /\ UNCHANGED notDbVars

\* A queue that hands out its newest item first.
QueueGetNewest(q) == [item |-> q[Len(q)], rest |-> SubSeq(q, 1, Len(q) - 1)]

\* asyncio.Queue.get: the oldest item is taken.
QueueGet(q) == [item |-> Head(q), rest |-> Tail(q)]

\* _run: item = await self._queue.get(); the sentinel ends the task, an
\* event enters _write_with_retries (whose first test is for missing ids).
worker_get ==
    /\ worker_task = "running"
    /\ worker.pc = "get"
    /\ writer_queue # <<>>
    /\ LET item == QueueGet(writer_queue).item
       IN  /\ writer_queue' = QueueGet(writer_queue).rest
           /\ IF item.kind = "STOP"
              THEN /\ worker_task' = "done"
                   /\ worker' = WorkerAt("exited", STOP, 0, <<>>)
              ELSE /\ worker_task' = worker_task
                   /\ worker' = IF MissingIds(item.event)
                                THEN WorkerAt("poison", item, 0, ReasonMissing)
                                ELSE WorkerAt("attempt", item, 1, <<>>)
    /\ UNCHANGED <<conn, stopper, event_ledger, ingest_poison_messages,
                   db_now, submitted, handled>>
    /\ UNCHANGED notDbVars

\* The values a read of the wall clock can return: it does not run backwards.
ClockReads == {t \in DbTimes : t >= db_now}

\* One pass of the retry loop in which _upsert_event commits.
worker_attempt_commit ==
    /\ worker_task = "running"
    /\ worker.pc = "attempt"
    /\ \E now \in ClockReads :
          /\ db_now' = now
          /\ event_ledger' = upsert_event(event_ledger, worker.event, now)
          /\ handled' = Append(handled, Handled(worker, "ledger", now))
    /\ worker' = WorkerAt("get", STOP, 0, <<>>)
    /\ UNCHANGED <<writer_queue, worker_task, conn, stopper,
                   ingest_poison_messages, submitted>>
    /\ UNCHANGED notDbVars

\* A retry loop that records a poison message on every lock error.
worker_attempt_locked_poison_each ==
    /\ worker_task = "running"
    /\ worker.pc = "attempt"
    /\ worker' = IF worker.attempt > lock_retry_limit
                 THEN [worker EXCEPT !.pc = "poison", !.reason = ReasonExhausted]
                 ELSE [worker EXCEPT !.pc = "sleep"]
    /\ ingest_poison_messages' =
          IF worker.attempt > lock_retry_limit THEN ingest_poison_messages
          ELSE Append(ingest_poison_messages,
                      PoisonRow(worker.event, worker.sid, ReasonExhausted))
    /\ UNCHANGED <<writer_queue, worker_task, conn, stopper, event_ledger,
                   db_now, submitted, handled>>
    /\ UNCHANGED notDbVars

\* One pass of the retry loop in which another connection holds the write
\* lock: BEGIN IMMEDIATE fails with "database is locked" (timeout=0.0), and
\* the loop sleeps or, past lock_retry_limit, turns to _record_poison.
worker_attempt_locked ==
    /\ worker_task = "running"
    /\ worker.pc = "attempt"
    /\ worker' = IF worker.attempt > lock_retry_limit
                 THEN [worker EXCEPT !.pc = "poison", !.reason = ReasonExhausted]
                 ELSE [worker EXCEPT !.pc = "sleep"]
    /\ UNCHANGED <<writer_queue, worker_task, conn, stopper, event_ledger,
                   ingest_poison_messages, db_now, submitted, handled>>
    /\ UNCHANGED notDbVars

\* _upsert_event fails with an OperationalError that is no lock error: the
\* transaction is rolled back and the error ends the worker task.
worker_attempt_fatal ==
    /\ worker_task = "running"
    /\ worker.pc = "attempt"
    /\ worker_task' = "failed"
    /\ worker' = [worker EXCEPT !.pc = "failed"]
    /\ UNCHANGED <<writer_queue, conn, stopper, event_ledger,
                   ingest_poison_messages, db_now, submitted, handled>>
    /\ UNCHANGED notDbVars

\* await asyncio.sleep(self._backoff_delay(attempt)) is over.
worker_wake ==
    /\ worker_task = "running"
    /\ worker.pc = "sleep"
    /\ worker' = [worker EXCEPT !.pc = "attempt", !.attempt = @ + 1]
    /\ UNCHANGED <<writer_queue, worker_task, conn, stopper, event_ledger,
                   ingest_poison_messages, db_now, submitted, handled>>
    /\ UNCHANGED notDbVars

\* _record_poison: its INSERT goes through and the worker takes the next item.
record_poison ==
    /\ worker_task = "running"
    /\ worker.pc = "poison"
    /\ IF conn = NoneVal
       THEN UNCHANGED <<ingest_poison_messages, handled>>
       ELSE /\ ingest_poison_messages' =
                  Append(ingest_poison_messages,
                         PoisonRow(worker.event, worker.sid, worker.reason))
            /\ handled' = Append(handled, Handled(worker, "poison", db_now))
    /\ worker' = WorkerAt("get", STOP, 0, <<>>)
    /\ UNCHANGED <<writer_queue, worker_task, conn, stopper, event_ledger,
                   db_now, submitted>>
    /\ UNCHANGED notDbVars

\* _record_poison while another connection holds the write lock: the INSERT
\* is a plain conn.execute outside any try, so its "database is locked"
\* OperationalError leaves _write_with_retries and _run and ends the task.
record_poison_locked ==
    /\ worker_task = "running"
    /\ worker.pc = "poison"
    /\ conn # NoneVal
    /\ worker_task' = "failed"
    /\ worker' = [worker EXCEPT !.pc = "failed"]
    /\ UNCHANGED <<writer_queue, conn, stopper, event_ledger,
                   ingest_poison_messages, db_now, submitted, handled>>
    /\ UNCHANGED notDbVars

\* The downstream processor settles a pending ledger row.
mark_processed(key, state) ==
    /\ key \in DOMAIN event_ledger
    /\ event_ledger[key].process_state = "pending"
    /\ event_ledger' =
          [event_ledger EXCEPT
              ![key].process_state = state,
              ![key].process_error =
                  IF state = "dead_letter" THEN "handler failed" ELSE NoneVal,
              ![key].processed_at = <<db_now>>]
    /\ UNCHANGED <<writer_queue, worker_task, conn, worker, stopper,
                   ingest_poison_messages, db_now, submitted, handled>>
    /\ UNCHANGED notDbVars

(***************************************************************************)
(* Part C: shared rate limiter                                             *)
(***************************************************************************)
\* One second of time.monotonic(), in clock ticks.
TicksPerSecond == 2

\* requests_per_second is a float: it is held here in halves of a request.
RpsScale == 2

\* The clock does not advance past this reading in a run.
MaxNow == 3

\* acquire and acquire_async are entered at most this many times in a run.
MaxAcquires == 4

Max(a, b) == IF a >= b THEN a ELSE b

RateLimitBucket == {"read", "write"}

\* RateLimitConfig(read_requests_per_second, write_requests_per_second,
\* wait_timeout_seconds): rates in 1/RpsScale requests, the timeout in ticks.
RateLimitConfig(read_rps, write_rps, timeout) ==
    [read_requests_per_second |-> read_rps,
     write_requests_per_second |-> write_rps,
     wait_timeout_seconds |-> timeout]

\* The configurations a limiter is built with: 1.0 and 2.0 requests per
\* second without waiting and with a wait of up to a second, and 2.5 with
\* 0.5 and with a closed write bucket.
RateLimitConfigs ==
    {RateLimitConfig(2, 4, 0),
     RateLimitConfig(2, 4, TicksPerSecond),
     RateLimitConfig(5, 1, 0),
     RateLimitConfig(2, 0, 1)}

requests_per_second(config, bucket) ==
    IF bucket = "read" THEN config.read_requests_per_second
    ELSE config.write_requests_per_second

\* capacity = max(1, int(requests_per_second))
capacity(rps) == Max(1, rps \div RpsScale)

\* _SlidingWindowBucket._evict_old
RECURSIVE evict_old(_, _)
evict_old(events, now) ==
    IF events # <<>> /\ now - Head(events) >= TicksPerSecond
    THEN evict_old(Tail(events), now)
    ELSE events

\* _SlidingWindowBucket.commit_after_wait
commit_after_wait(events, now) == Append(evict_old(events, now), now)

\* A reserve_delay that admits one reservation more than the capacity.
reserve_delay_one_more(events, rps, now) ==
    LET kept == evict_old(events, now)
    IN  IF rps <= 0 THEN [events |-> kept, infinite |-> TRUE, wait_for |-> 0]
        ELSE IF Len(kept) <= capacity(rps)
        THEN [events |-> Append(kept, now), infinite |-> FALSE, wait_for |-> 0]
        ELSE [events |-> kept, infinite |-> FALSE,
              wait_for |-> Max(0, (kept[1] + TicksPerSecond) - now)]

\* _SlidingWindowBucket.reserve_delay: the bucket's events afterwards and
\* the delay returned (float("inf") is the flag `infinite`).
reserve_delay(events, rps, now) ==
    LET kept == evict_old(events, now)
    IN  IF rps <= 0 THEN [events |-> kept, infinite |-> TRUE, wait_for |-> 0]
        ELSE IF Len(kept) < capacity(rps)
        THEN [events |-> Append(kept, now), infinite |-> FALSE, wait_for |-> 0]
        ELSE LET oldest == kept[1]
                 wait_for == Max(0, (oldest + TicksPerSecond) - now)
             IN  IF wait_for <= 0
                 THEN [events |-> Append(Tail(kept), now),
                       infinite |-> FALSE, wait_for |-> 0]
                 ELSE [events |-> kept, infinite |-> FALSE,
                       wait_for |-> wait_for]

\* The callers of the limiter: a thread in acquire and a coroutine in
\* acquire_async.
Callers == {"thread", "coroutine"}

NotSleeping == [sleeping |-> FALSE, bucket |-> "read", wake_at |-> 0]

RlCall(caller, bucket, at, outcome) ==
    [caller |-> caller, bucket |-> bucket, at |-> at, outcome |-> outcome]

RlInitVars ==
    /\ rl_config = <<>>
    /\ rl_events = [b \in RateLimitBucket |-> <<>>]
    /\ rl_metrics = [throttled_requests |-> 0, dropped_requests |-> 0]
    /\ rl_now = 0
    /\ rl_sleepers = [c \in Callers |-> NotSleeping]
    /\ rl_calls = <<>>

\* SharedRateLimiter.__init__
SharedRateLimiter(config) ==
    /\ rl_config = <<>>
    /\ rl_config' = <<config>>
    /\ UNCHANGED <<rl_events, rl_metrics, rl_now, rl_sleepers, rl_calls>>
    /\ UNCHANGED notRlVars

\* The first locked section of _acquire_with_sleep and of
\* _acquire_with_async_sleep: reserve, or drop, or count as throttled and
\* go to sleep for the delay.
acquire_locked(caller, bucket) ==
    /\ rl_config # <<>>
    /\ ~rl_sleepers[caller].sleeping
    /\ Len(rl_calls) < MaxAcquires
    /\ LET config == rl_config[1]
           timeout == config.wait_timeout_seconds
           now == rl_now
           r == reserve_delay(rl_events[bucket],
                              requests_per_second(config, bucket), now)
       IN  /\ rl_events' = [rl_events EXCEPT ![bucket] = r.events]
           /\ IF ~r.infinite /\ r.wait_for = 0
              THEN /\ rl_calls' = Append(rl_calls,
                                         RlCall(caller, bucket, now, "reserved"))
                   /\ UNCHANGED <<rl_metrics, rl_sleepers>>
              ELSE IF r.infinite \/ r.wait_for > timeout
              THEN /\ rl_metrics' = [rl_metrics EXCEPT !.dropped_requests = @ + 1]
                   /\ rl_calls' = Append(rl_calls,
                                         RlCall(caller, bucket, now, "dropped"))
                   /\ UNCHANGED rl_sleepers
              ELSE /\ rl_metrics' = [rl_metrics EXCEPT !.throttled_requests = @ + 1]
                   /\ rl_sleepers' = [rl_sleepers EXCEPT ![caller] =
                          [sleeping |-> TRUE, bucket |-> bucket,
                           wake_at |-> now + r.wait_for]]
                   /\ rl_calls' = Append(rl_calls,
                                         RlCall(caller, bucket, now, "throttled"))
    /\ UNCHANGED <<rl_config, rl_now>>
    /\ UNCHANGED notRlVars

\* The second locked section, entered once the sleep is over: commit the
\* slot at the time the clock then shows.
commit_locked(caller) ==
    /\ rl_sleepers[caller].sleeping
    /\ rl_now >= rl_sleepers[caller].wake_at
    /\ LET bucket == rl_sleepers[caller].bucket
       IN  /\ rl_events' = [rl_events EXCEPT ![bucket] =
                               commit_after_wait(rl_events[bucket], rl_now)]
           /\ rl_calls' = Append(rl_calls,
                                 RlCall(caller, bucket, rl_now, "committed"))
    /\ rl_sleepers' = [rl_sleepers EXCEPT ![caller] = NotSleeping]
    /\ UNCHANGED <<rl_config, rl_metrics, rl_now>>
    /\ UNCHANGED notRlVars

\* SharedRateLimiter.acquire, called by the thread.
acquire(bucket) == acquire_locked("thread", bucket)

acquire_resume == commit_locked("thread")

\* SharedRateLimiter.acquire_async, called by the coroutine.
acquire_async(bucket) == acquire_locked("coroutine", bucket)

acquire_async_resume == commit_locked("coroutine")

\* time.monotonic() advances.
rl_tick ==
    /\ rl_config # <<>>
    /\ rl_now < MaxNow
    /\ rl_now' = rl_now + 1
    /\ UNCHANGED <<rl_config, rl_events, rl_metrics, rl_sleepers, rl_calls>>
    /\ UNCHANGED notRlVars

(***************************************************************************)
(* Part D: HTTP client request loop                                        *)
(***************************************************************************)
\* ConnectorErrorCode
ConnectorErrorCode ==
    {"authentication_failed", "authorization_failed", "not_found",
     "rate_limited", "network_error", "timeout", "bad_request",
     "schema_validation", "remote_error", "unknown"}

\* An exception as map_kalshi_error looks at it: its class, its status_code
\* attribute (0 when it has none) and the word of its message that the
\* mapping searches for ("" when it holds none of them).
Error(cls, status_code, word) ==
    [cls |-> cls, status_code |-> status_code, word |-> word]

NoError == Error("None", 0, "")

\* What an attempt can raise: RateLimitExceededError from the limiter,
\* HttpStatusError from the session or from raise_for_status, the transport
\* errors, and the ValueError of a body that is not JSON.
Errors ==
    {Error("RateLimitExceededError", 429, "")}
    \cup {Error("HttpStatusError", code, "") :
              code \in {400, 401, 403, 404, 418, 429, 500}}
    \cup {Error("HttpStatusError", 500, "timeout"),
          Error("HttpStatusError", 418, "connection"),
          Error("TimeoutError", 0, ""),
          Error("OSError", 0, ""),
          Error("OSError", 0, "timeout"),
          Error("ValueError", 0, "")}

\* isinstance(error, OSError): TimeoutError is a subclass of OSError.
IsOSError(error) == error.cls \in {"OSError", "TimeoutError"}

\* map_kalshi_error: the code of the ConnectorError returned.
map_kalshi_error(error) ==
    IF error.status_code = 400 THEN "bad_request"
    ELSE IF error.status_code = 401 THEN "authentication_failed"
    ELSE IF error.status_code = 403 THEN "authorization_failed"
    ELSE IF error.status_code = 404 THEN "not_found"
    ELSE IF error.status_code = 429 THEN "rate_limited"
    ELSE IF error.cls = "TimeoutError" THEN "timeout"
    ELSE IF IsOSError(error) THEN "network_error"
    ELSE IF error.word = "timeout" THEN "timeout"
    ELSE IF error.word \in {"connection", "network"} THEN "network_error"
    ELSE IF error.status_code # 0 /\ error.status_code >= 500 THEN "remote_error"
    ELSE IF error.cls = "ValueError" THEN "schema_validation"
    ELSE "unknown"

\* A retry set that also holds remote_error.
RetryCodes_with_remote == {"network_error", "timeout", "rate_limited", "remote_error"}

\* The mapped codes after which _request tries again.
RetryCodes == {"network_error", "timeout", "rate_limited"}

\* RetryConfig.max_attempts as configured (KALSHI_RETRY_MAX_ATTEMPTS is any
\* integer; the default is 3).
MaxAttemptsInputs == 0..3

Methods == {"GET", "get", "POST", "DELETE"}

\* str.upper on the methods
Upper(method) == IF method = "get" THEN "GET" ELSE method

\* bucket = READ if method.upper() == "GET" else WRITE
BucketOf(method) == IF Upper(method) = "GET" THEN "read" ELSE "write"

HttpAt(pc, max_attempts, method, attempts, raised) ==
    [pc |-> pc, max_attempts |-> max_attempts, method |-> method,
     attempts |-> attempts, raised |-> raised]

\* One pass of the loop: the bucket acquired, whether the acquire returned,
\* whether the request went to the session, what was raised and its code.
Attempt(bucket, acquired, sent, error) ==
    [bucket |-> bucket, acquired |-> acquired, sent |-> sent, error |-> error,
     code |-> IF error = NoError THEN "ok" ELSE map_kalshi_error(error)]

HttpInitVars ==
    /\ http = HttpAt("unbuilt", 0, "GET", 0, NoneVal)
    /\ http_attempts = <<>>

\* KalshiClient.__init__ with config.retry.max_attempts
KalshiClient(max_attempts) ==
    /\ http.pc = "unbuilt"
    /\ http' = HttpAt("idle", max_attempts, "GET", 0, NoneVal)
    /\ UNCHANGED http_attempts
    /\ UNCHANGED notHttpVars

\* _request is called: attempts = 0, the loop is entered.
request_call(method) ==
    /\ http.pc \in {"idle", "returned", "raised"}
    /\ http' = HttpAt("attempt", http.max_attempts, method, 0, NoneVal)
    /\ http_attempts' = <<>>
    /\ UNCHANGED notHttpVars

\* What one pass of the loop leaves: it returned the response, or it raised
\* the mapped error, or it goes to sleep before the next pass.
AfterAttempt(attempt) ==
    LET attempts == http.attempts + 1
    IN  /\ http_attempts' = Append(http_attempts, attempt)
        /\ IF attempt.code = "ok"
           THEN http' = [http EXCEPT !.pc = "returned", !.attempts = attempts]
           ELSE IF attempts >= http.max_attempts \/ attempt.code \notin RetryCodes
           THEN http' = [http EXCEPT !.pc = "raised", !.attempts = attempts,
                                     !.raised = attempt.code]
           ELSE http' = [http EXCEPT !.pc = "sleep", !.attempts = attempts]

\* A pass in which acquire, the session and the parsing all succeed.
request_attempt_ok ==
    /\ http.pc = "attempt"
    /\ AfterAttempt(Attempt(BucketOf(http.method), TRUE, TRUE, NoError))
    /\ UNCHANGED notHttpVars

\* A pass that hands the request to the session although acquire raised.
request_attempt_rate_limited_sends ==
    /\ http.pc = "attempt"
    /\ AfterAttempt(Attempt(BucketOf(http.method), FALSE, TRUE,
                            Error("RateLimitExceededError", 429, "")))
    /\ UNCHANGED notHttpVars

\* A pass in which the limiter's acquire raises: nothing is sent.
request_attempt_rate_limited ==
    /\ http.pc = "attempt"
    /\ AfterAttempt(Attempt(BucketOf(http.method), FALSE, FALSE,
                            Error("RateLimitExceededError", 429, "")))
    /\ UNCHANGED notHttpVars

\* A pass in which the session, raise_for_status or response.json raises.
request_attempt_fails(error) ==
    /\ http.pc = "attempt"
    /\ error.cls # "RateLimitExceededError"
    /\ AfterAttempt(Attempt(BucketOf(http.method), TRUE, TRUE, error))
    /\ UNCHANGED notHttpVars

\* time.sleep(backoff_seconds * attempts) is over.
request_wake ==
    /\ http.pc = "sleep"
    /\ http' = [http EXCEPT !.pc = "attempt"]
    /\ UNCHANGED http_attempts
    /\ UNCHANGED notHttpVars

(***************************************************************************)
(* Part E: market-data stream state machine                                *)
(***************************************************************************)
\* StreamReconnectConfig, times in clock ticks; jitter_ratio is 0, so that
\* random.uniform(-0, 0) adds nothing to the backoff.
stable_connect_seconds == 2

max_retry_window_seconds == 2

degraded_after_attempts == 2

base_backoff_seconds == 1

max_backoff_seconds == 2

\* The clock of the stream does not advance past this reading in a run.
MaxStreamNow == 4

\* A run of the generator opens at most this many sessions.
MaxSessions == 4

Min(a, b) == IF a <= b THEN a ELSE b

RECURSIVE Pow2(_)
Pow2(n) == IF n <= 0 THEN 1 ELSE 2 * Pow2(n - 1)

SUPPORTED_MARKET_DATA_CHANNELS == {"orderbook_delta", "trade"}

\* _is_supported_channel
is_supported_channel(channel) == channel \in SUPPORTED_MARKET_DATA_CHANNELS

\* The channel lists the stream is asked for.
ChannelInputs ==
    {<<>>, <<"trade", "ticker">>, <<"orderbook_delta", "trade">>,
     <<"trade", "ticker", "orderbook_delta">>}

\* The list comprehension without its filter.
subscribed_channels_unfiltered(channels) == channels

\* subscribed_channels = [channel for channel in channels if supported]
subscribed_channels(channels) == SelectSeq(channels, is_supported_channel)

\* What the driver sends into the generator at await_disconnect: None, or a
\* mapping with some of clean ("true", "false" or absent), status_code
\* (0: absent) and reason.
NoNotice == [given |-> FALSE, clean |-> "absent", status_code |-> 0, reason |-> ""]

Notice(clean, status_code, reason) ==
    [given |-> TRUE, clean |-> clean, status_code |-> status_code,
     reason |-> reason]

DisconnectNotices ==
    {NoNotice,
     Notice("absent", 0, ""),
     Notice("true", 0, ""),
     Notice("true", 401, "auth expired"),
     Notice("false", 0, "connection reset"),
     Notice("absent", 401, "auth expired"),
     Notice("false", 403, ""),
     Notice("false", 0, "Token revoked"),
     Notice("absent", 0, "bad credential")}

\* The words "auth", "credential", "token" found in str(reason).lower().
AuthWordsIn(reason) ==
    IF reason = "auth expired" THEN {"auth"}
    ELSE IF reason = "Token revoked" THEN {"token"}
    ELSE IF reason = "bad credential" THEN {"credential"}
    ELSE {}

\* not disconnect_notice: None, or a mapping without entries
NoticeIsFalsy(notice) ==
    ~notice.given
    \/ (notice.clean = "absent" /\ notice.status_code = 0 /\ notice.reason = "")

\* _classify_stream_close
classify_stream_close(notice) ==
    IF NoticeIsFalsy(notice) THEN "transient_failure"
    ELSE IF notice.clean = "true" THEN "clean"
    ELSE IF notice.status_code \in {401, 403} THEN "auth_failure"
    ELSE IF AuthWordsIn(notice.reason) # {} THEN "auth_failure"
    ELSE "transient_failure"

\* What the driver sends at sleep: None, or a mapping whose stable_connect
\* is absent, false or true.
SleepReplies == {"None", "absent", "false", "true"}

\* recovered and recovered.get("stable_connect")
StableConnect(recovered) == recovered = "true"

\* _compute_stream_backoff_seconds with jitter_ratio = 0
compute_stream_backoff_seconds(attempt) ==
    Min(base_backoff_seconds * Pow2(Max(0, attempt - 1)), max_backoff_seconds)

Envelope(type, channel, state, reason, attempt, seconds) ==
    [type |-> type, channel |-> channel, state |-> state, reason |-> reason,
     attempt |-> attempt, seconds |-> seconds, resubscribe |-> FALSE]

ConnectEnvelope == Envelope("connect", "", "", "", 0, 0)

\* The subscribe envelope: the only one with "resubscribe": True.
SubscribeEnvelope(channel) ==
    [Envelope("subscribe", channel, "", "", 0, 0) EXCEPT !.resubscribe = TRUE]

AwaitDisconnectEnvelope == Envelope("await_disconnect", "", "", "", 0, 0)

\* _build_health_event
build_health_event(health_state, reason, attempt) ==
    Envelope("health_state", "", health_state, reason, attempt, 0)

ReconnectScheduledEnvelope(attempt, backoff_seconds) ==
    Envelope("reconnect_scheduled", "", "", "transient_failure", attempt,
             backoff_seconds)

SleepEnvelope(backoff_seconds) == Envelope("sleep", "", "", "", 0, backoff_seconds)

\* The generator before its first resumption.
StreamCreated ==
    [pc |-> "none", requested |-> <<>>, channels |-> <<>>, subscribed |-> 0,
     retry_started_at |-> <<>>, consecutive_failures |-> 0,
     health_state |-> "healthy", connect_started_at |-> 0,
     received |-> NoNotice, recovered |-> "None", sessions |-> 0]

StreamInitVars ==
    /\ stream = StreamCreated
    /\ stream_envelopes = <<>>
    /\ stream_health = <<>>
    /\ stream_now = 0

\* yield: the generator is suspended at `pc` having handed out `envelope`.
Yield(st, pc, envelope) ==
    /\ stream' = [st EXCEPT !.pc = pc]
    /\ stream_envelopes' = Append(stream_envelopes, envelope)
    /\ stream_health' = IF envelope.type = "health_state"
                        THEN Append(stream_health, envelope)
                        ELSE stream_health

\* return, or raise of the mapped limiter error: nothing more is yielded.
Finish(st, pc) ==
    /\ stream' = [st EXCEPT !.pc = pc]
    /\ UNCHANGED <<stream_envelopes, stream_health>>

\* The top of the while loop: acquire_async(READ) and the connect envelope
\* of a new session, or the limiter's error mapped and raised.
Connecting(st, acquired) ==
    IF acquired
    THEN /\ st.sessions < MaxSessions
         /\ stream' = [st EXCEPT !.pc = "connect", !.subscribed = 0,
                                 !.sessions = @ + 1]
         /\ stream_envelopes' = <<ConnectEnvelope>>
         /\ UNCHANGED stream_health
    ELSE Finish(st, "raised")

\* The subscribe loop and what follows it: acquire_async(WRITE) and the
\* next subscribe envelope, or, after the last channel, the reading of
\* connect_started_at and the await_disconnect envelope.
Subscribing(st, acquired) ==
    IF st.subscribed < Len(st.channels)
    THEN IF acquired
         THEN Yield([st EXCEPT !.subscribed = @ + 1], "subscribe",
                    SubscribeEnvelope(st.channels[st.subscribed + 1]))
         ELSE Finish(st, "raised")
    ELSE Yield([st EXCEPT !.connect_started_at = stream_now],
               "await_disconnect", AwaitDisconnectEnvelope)

\* The generator is resumed with `notice` and `recovered` as the value sent
\* (the defaults where the value sent is not looked at).
Resumed(notice, recovered) ==
    [stream EXCEPT !.received = notice, !.recovered = recovered]

\* A degraded envelope for every disconnect at or past the threshold.
ShouldDegrade_every_time(consecutive_failures, health_state) ==
    consecutive_failures >= degraded_after_attempts

\* consecutive_failures >= degraded_after_attempts and health_state != DEGRADED
ShouldDegrade(consecutive_failures, health_state) ==
    /\ consecutive_failures >= degraded_after_attempts
    /\ health_state # "degraded"

\* A reply to sleep that resets only the failure counter.
AfterStableConnect_keeps_window(st) == [st EXCEPT !.consecutive_failures = 0]

\* consecutive_failures = 0; retry_started_at = None
AfterStableConnect(st) ==
    [st EXCEPT !.consecutive_failures = 0, !.retry_started_at = <<>>]

\* stream_market_data(channels), run up to its first yield.
stream_market_data(channels, acquired) ==
    /\ stream.pc = "none"
    /\ Connecting([stream EXCEPT !.requested = channels,
                                 !.channels = subscribed_channels(channels)],
                  acquired)
    /\ UNCHANGED stream_now
    /\ UNCHANGED notStreamVars

\* Resumed at the connect envelope.
resume_connect(acquired) ==
    /\ stream.pc = "connect"
    /\ Subscribing(Resumed(NoNotice, "None"), acquired)
    /\ UNCHANGED stream_now
    /\ UNCHANGED notStreamVars

\* Resumed at a subscribe envelope.
resume_subscribe(acquired) ==
    /\ stream.pc = "subscribe"
    /\ Subscribing(Resumed(NoNotice, "None"), acquired)
    /\ UNCHANGED stream_now
    /\ UNCHANGED notStreamVars

\* The TRANSIENT branch without the reset after a stable session.
TransientFailure_without_reset(st) ==
    LET now == stream_now
        uptime == now - st.connect_started_at
        stable == uptime >= stable_connect_seconds
        started == IF st.retry_started_at = <<>>
                   THEN now ELSE st.retry_started_at[1]
        failures == st.consecutive_failures + 1
        failed == [st EXCEPT !.retry_started_at = <<started>>,
                             !.consecutive_failures = failures]
    IN  IF now - started > max_retry_window_seconds
        THEN IF st.health_state # "degraded"
             THEN Yield([failed EXCEPT !.health_state = "degraded"],
                        "window_health",
                        build_health_event("degraded",
                                           "max_retry_window_reached", failures))
             ELSE Finish(failed, "done")
        ELSE IF ShouldDegrade(failures, st.health_state)
        THEN Yield([failed EXCEPT !.health_state = "degraded"],
                   "degraded_health",
                   build_health_event("degraded", "repeated_disconnects",
                                      failures))
        ELSE Yield(failed, "reconnect_scheduled",
                   ReconnectScheduledEnvelope(
                       failures, compute_stream_backoff_seconds(failures)))

\* The TRANSIENT branch, from the reading of the clock to the next yield.
TransientFailure(st) ==
    LET now == stream_now
        uptime == now - st.connect_started_at
        stable == uptime >= stable_connect_seconds
        started == IF stable \/ st.retry_started_at = <<>>
                   THEN now ELSE st.retry_started_at[1]
        failures == (IF stable THEN 0 ELSE st.consecutive_failures) + 1
        failed == [st EXCEPT !.retry_started_at = <<started>>,
                             !.consecutive_failures = failures]
    IN  IF now - started > max_retry_window_seconds
        THEN IF st.health_state # "degraded"
             THEN Yield([failed EXCEPT !.health_state = "degraded"],
                        "window_health",
                        build_health_event("degraded",
                                           "max_retry_window_reached", failures))
             ELSE Finish(failed, "done")
        ELSE IF ShouldDegrade(failures, st.health_state)
        THEN Yield([failed EXCEPT !.health_state = "degraded"],
                   "degraded_health",
                   build_health_event("degraded", "repeated_disconnects",
                                      failures))
        ELSE Yield(failed, "reconnect_scheduled",
                   ReconnectScheduledEnvelope(
                       failures, compute_stream_backoff_seconds(failures)))

\* Resumed at await_disconnect with the driver's disconnect notice.
resume_await_disconnect(notice) ==
    /\ stream.pc = "await_disconnect"
    /\ LET st == Resumed(notice, "None")
           close_type == classify_stream_close(notice)
       IN  IF close_type = "clean" THEN Finish(st, "done")
           ELSE IF close_type = "auth_failure"
           THEN IF st.health_state # "degraded"
                THEN Yield([st EXCEPT !.health_state = "degraded"],
                           "auth_health",
                           build_health_event("degraded", "auth_failure",
                                              st.consecutive_failures + 1))
                ELSE Finish(st, "done")
           ELSE TransientFailure(st)
    /\ UNCHANGED stream_now
    /\ UNCHANGED notStreamVars

\* Resumed at the health envelope of an auth failure or of an exhausted
\* retry window: the generator returns.
resume_final_health ==
    /\ stream.pc \in {"auth_health", "window_health"}
    /\ Finish(Resumed(NoNotice, "None"), "done")
    /\ UNCHANGED stream_now
    /\ UNCHANGED notStreamVars

\* Resumed at the repeated_disconnects health envelope.
resume_degraded_health ==
    /\ stream.pc = "degraded_health"
    /\ Yield(Resumed(NoNotice, "None"), "reconnect_scheduled",
             ReconnectScheduledEnvelope(
                 stream.consecutive_failures,
                 compute_stream_backoff_seconds(stream.consecutive_failures)))
    /\ UNCHANGED stream_now
    /\ UNCHANGED notStreamVars

\* Resumed at reconnect_scheduled.
resume_reconnect_scheduled ==
    /\ stream.pc = "reconnect_scheduled"
    /\ Yield(Resumed(NoNotice, "None"), "sleep",
             SleepEnvelope(compute_stream_backoff_seconds(
                               stream.consecutive_failures)))
    /\ UNCHANGED stream_now
    /\ UNCHANGED notStreamVars

\* Resumed at sleep with the driver's reply.
resume_sleep(recovered, acquired) ==
    /\ stream.pc = "sleep"
    /\ LET st == Resumed(NoNotice, recovered)
       IN  IF StableConnect(recovered)
           THEN IF st.health_state # "healthy"
                THEN Yield([AfterStableConnect(st) EXCEPT
                               !.health_state = "healthy"],
                           "restored_health",
                           build_health_event("healthy",
                                              "stable_connection_restored", 0))
                ELSE Connecting(AfterStableConnect(st), acquired)
           ELSE Connecting(st, acquired)
    /\ UNCHANGED stream_now
    /\ UNCHANGED notStreamVars

\* Resumed at the stable_connection_restored health envelope.
resume_restored_health(acquired) ==
    /\ stream.pc = "restored_health"
    /\ Connecting(Resumed(NoNotice, "None"), acquired)
    /\ UNCHANGED stream_now
    /\ UNCHANGED notStreamVars

\* time.monotonic() advances while the generator is suspended.
stream_tick ==
    /\ stream.pc \in {"await_disconnect", "sleep"}
    /\ stream_now < MaxStreamNow
    /\ stream_now' = stream_now + 1
    /\ UNCHANGED <<stream, stream_envelopes, stream_health>>
    /\ UNCHANGED notStreamVars

\* str.lower() on the strings the model uses.
Lower(s) ==
    CASE s = "RISK_ALERT" -> "risk_alert"
      [] s = "MARKET" -> "market"
      [] s = "YES" -> "yes"
      [] OTHER -> s

(***************************************************************************)
(* Part G: payloads, snapshots, the four state tables                      *)
(***************************************************************************)

\* Number of boot_rehydrate calls explored.
MaxRuns == 3

\* The keys of the payload mappings, in the order
\* json.dumps(sort_keys=True) writes them; a payload is a sequence of
\* <<key index, value>> items in the order the mapping holds them.
PayloadKeys ==
    <<"deleted", "id", "market_id", "order_id", "position", "position_key",
      "side", "state", "status", "ticker">>

Key(name) == CHOOSE i \in 1..Len(PayloadKeys) : PayloadKeys[i] = name

\* item.get(name) or "": a missing key reads like an empty value.
Get(item, name) ==
    IF \E i \in 1..Len(item) : item[i][1] = Key(name)
    THEN item[CHOOSE i \in 1..Len(item) : item[i][1] = Key(name)][2]
    ELSE ""

\* str.strip() on the strings the model uses.
Strip(s) ==
    CASE s = " o-2 " -> "o-2"
      [] s = " " -> ""
      [] OTHER -> s

\* The strings the model sorts, in Python's string order.
SortedText == <<"MKT", "MKT:no", "MKT:yes", "o-1", "o-2">>

\* sorted(keys)
Sorted(keys) == SelectSeq(SortedText, LAMBDA k : k \in keys)

\* A table, or a dict, with no entry.
EmptyTable == [k \in {} |-> <<>>]

TablePut(table, k, row) ==
    [x \in DOMAIN table \cup {k} |-> IF x = k THEN row ELSE table[x]]

TableDelete(table, k) == [x \in DOMAIN table \ {k} |-> table[x]]

\* _serialize_payload: the canonical text and its digest.
serialize_payload(payload) ==
    [payload_json   |-> to_json(payload),
     payload_sha256 |-> sha256(to_json(payload))]

\* Items of the "orders" list of get_open_orders().
OrderItems ==
    [resting  |-> << <<Key("order_id"), "o-1">>, <<Key("status"), "resting">> >>,
     partial  |-> << <<Key("status"), "partial">>, <<Key("order_id"), "o-1">> >>,
     by_id    |-> << <<Key("id"), " o-2 ">> >>,
     blank_id |-> << <<Key("order_id"), " ">>, <<Key("status"), "resting">> >>,
     no_id    |-> << <<Key("status"), "resting">> >>]

\* Items of the "positions" list of get_positions().
PositionItems ==
    [yes_one   |-> << <<Key("market_id"), "MKT">>, <<Key("side"), "YES">>,
                      <<Key("position"), "1">> >>,
     yes_two   |-> << <<Key("side"), "yes">>, <<Key("position"), "2">>,
                      <<Key("market_id"), "MKT">> >>,
     no_side   |-> << <<Key("ticker"), "MKT">> >>,
     side_no   |-> << <<Key("ticker"), "MKT">>, <<Key("side"), "no">> >>,
     no_market |-> << <<Key("side"), "no">> >>]

\* What the exchange answers to one boot: the two lists.
RemoteSnapshots ==
    { [orders |-> <<>>, positions |-> <<>>],
      [orders |-> <<OrderItems.resting>>, positions |-> <<PositionItems.yes_one>>],
      [orders |-> <<OrderItems.resting, OrderItems.by_id, OrderItems.no_id>>,
       positions |-> <<PositionItems.yes_one, PositionItems.no_side,
                       PositionItems.no_market>>],
      [orders |-> <<OrderItems.resting, OrderItems.partial>>,
       positions |-> <<PositionItems.yes_two>>],
      [orders |-> <<OrderItems.by_id, OrderItems.blank_id>>,
       positions |-> <<PositionItems.side_no>>] }

\* _normalize_orders: order id -> item; items without an id are skipped and
\* a later item of the same id replaces an earlier one.
RECURSIVE normalize_orders(_)
normalize_orders(raw_orders) ==
    IF raw_orders = <<>> THEN EmptyTable
    ELSE LET item == raw_orders[Len(raw_orders)]
             normalized ==
                 normalize_orders(SubSeq(raw_orders, 1, Len(raw_orders) - 1))
             order_id ==
                 Strip(IF Get(item, "order_id") # "" THEN Get(item, "order_id")
                       ELSE Get(item, "id"))
         IN  IF order_id = "" THEN normalized
             ELSE TablePut(normalized, order_id, item)

\* f"{market_id}:{side}" if side else market_id
PositionKey(market_id, side) ==
    CASE side = "" -> market_id
      [] market_id = "MKT" /\ side = "yes" -> "MKT:yes"
      [] market_id = "MKT" /\ side = "no" -> "MKT:no"

\* _normalize_positions: position key -> item.
RECURSIVE normalize_positions(_)
normalize_positions(raw_positions) ==
    IF raw_positions = <<>> THEN EmptyTable
    ELSE LET item == raw_positions[Len(raw_positions)]
             normalized ==
                 normalize_positions(
                     SubSeq(raw_positions, 1, Len(raw_positions) - 1))
             market_id ==
                 Strip(IF Get(item, "market_id") # "" THEN Get(item, "market_id")
                       ELSE Get(item, "ticker"))
             side == Lower(Strip(Get(item, "side")))
         IN  IF market_id = "" THEN normalized
             ELSE TablePut(normalized, PositionKey(market_id, side), item)

DriftRecord(category, entity_key, action, source_event_id, payload) ==
    [category        |-> category,
     entity_key      |-> entity_key,
     action          |-> action,
     source_event_id |-> source_event_id,
     payload         |-> payload]

SourceEventId_without_key(boot_id, category, entity_key, suffix) ==
    <<"boot", boot_id, category, suffix>>

\* f"boot:{boot_id}:{category}:{entity_key}:{suffix}", as its parts.
SourceEventId(boot_id, category, entity_key, suffix) ==
    <<"boot", boot_id, category, entity_key, suffix>>

OrderRow(serialized, state, now) ==
    [payload_json   |-> serialized.payload_json,
     payload_sha256 |-> serialized.payload_sha256,
     state          |-> state,
     updated_at     |-> now]

mark_closed_missing_exchange_deletes(table, order_id, now) ==
    TableDelete(table, order_id)

\* UPDATE state_orders SET state='closed', updated_at=? WHERE order_id=?
mark_closed_missing_exchange(table, order_id, now) ==
    [table EXCEPT ![order_id].state = "closed", ![order_id].updated_at = now]

\* One turn of the loop of _reconcile_orders; `existing` is the table as
\* read before the loop, `acc` the table and the drift list so far, `now`
\* what _now_iso() returns.
ReconcileOrder(acc, order_id, existing, remote_orders, boot_id, now) ==
    LET has_remote == order_id \in DOMAIN remote_orders
        has_row == order_id \in DOMAIN existing
        remote_payload == remote_orders[order_id]
        serialized == serialize_payload(remote_payload)
    IN  CASE has_remote /\ ~has_row ->
               [table |-> TablePut(acc.table, order_id,
                                   OrderRow(serialized, "open", now)),
                drift |-> Append(acc.drift,
                    DriftRecord("orders", order_id, "insert_from_exchange",
                        SourceEventId(boot_id, "orders", order_id, "insert"),
                        remote_payload))]
          [] ~has_remote /\ has_row /\ existing[order_id].state # "closed" ->
               [table |-> mark_closed_missing_exchange(acc.table, order_id, now),
                drift |-> Append(acc.drift,
                    DriftRecord("orders", order_id,
                        "mark_closed_missing_exchange",
                        SourceEventId(boot_id, "orders", order_id, "close"),
                        << <<Key("order_id"), order_id>>,
                           <<Key("state"), "closed">> >>))]
          [] has_remote /\ has_row
                /\ (serialized.payload_sha256 # existing[order_id].payload_sha256
                    \/ existing[order_id].state # "open") ->
               [table |-> TablePut(acc.table, order_id,
                                   OrderRow(serialized, "open", now)),
                drift |-> Append(acc.drift,
                    DriftRecord("orders", order_id, "update_from_exchange",
                        SourceEventId(boot_id, "orders", order_id, "update"),
                        remote_payload))]
          [] OTHER -> acc

RECURSIVE ReconcileOrders(_, _, _, _, _, _)
ReconcileOrders(acc, ids, existing, remote_orders, boot_id, now) ==
    IF ids = <<>> THEN acc
    ELSE ReconcileOrders(
             ReconcileOrder(acc, Head(ids), existing, remote_orders, boot_id,
                            now),
             Tail(ids), existing, remote_orders, boot_id, now)

\* _reconcile_orders: the table afterwards and the drift list.
reconcile_orders(table, remote_orders, boot_id, now) ==
    ReconcileOrders([table |-> table, drift |-> <<>>],
                    Sorted(DOMAIN table \cup DOMAIN remote_orders),
                    table, remote_orders, boot_id, now)

PositionRow(serialized, now) ==
    [payload_json   |-> serialized.payload_json,
     payload_sha256 |-> serialized.payload_sha256,
     updated_at     |-> now]

\* A position row that is only written when its hash differs.
UpsertPosition_if_changed(table, key, serialized, now) ==
    IF key \in DOMAIN table
          /\ table[key].payload_sha256 = serialized.payload_sha256
    THEN table
    ELSE TablePut(table, key, PositionRow(serialized, now))

\* INSERT INTO state_positions ... ON CONFLICT(position_key) DO UPDATE:
\* the row is written, updated_at included, whatever it held.
UpsertPosition(table, key, serialized, now) ==
    TablePut(table, key, PositionRow(serialized, now))

\* One turn of the loop of _reconcile_positions.
ReconcilePosition(acc, key, existing, remote_positions, boot_id, now) ==
    LET remote_payload == remote_positions[key]
        serialized == serialize_payload(remote_payload)
    IN  IF key \notin DOMAIN remote_positions
        THEN [table |-> TableDelete(acc.table, key),
              drift |-> Append(acc.drift,
                  DriftRecord("positions", key, "delete_missing_exchange",
                      SourceEventId(boot_id, "positions", key, "delete"),
                      << <<Key("position_key"), key>>,
                         <<Key("deleted"), "true">> >>))]
        ELSE [table |-> UpsertPosition(acc.table, key, serialized, now),
              drift |->
                  IF key \in DOMAIN existing
                        /\ existing[key].payload_sha256
                               = serialized.payload_sha256
                  THEN acc.drift
                  ELSE Append(acc.drift,
                      DriftRecord("positions", key, "upsert_from_exchange",
                          SourceEventId(boot_id, "positions", key, "upsert"),
                          remote_payload))]

RECURSIVE ReconcilePositions(_, _, _, _, _, _)
ReconcilePositions(acc, keys, existing, remote_positions, boot_id, now) ==
    IF keys = <<>> THEN acc
    ELSE ReconcilePositions(
             ReconcilePosition(acc, Head(keys), existing, remote_positions,
                               boot_id, now),
             Tail(keys), existing, remote_positions, boot_id, now)

\* _reconcile_positions: the table afterwards and the drift list.
reconcile_positions(table, remote_positions, boot_id, now) ==
    ReconcilePositions([table |-> table, drift |-> <<>>],
                       Sorted(DOMAIN table \cup DOMAIN remote_positions),
                       table, remote_positions, boot_id, now)

\* The row one drift record is written as.
LedgerRow(item) ==
    [source_system   |-> "kalshi_rehydration",
     source_event_id |-> item.source_event_id,
     category        |-> item.category,
     entity_key      |-> item.entity_key,
     action          |-> item.action,
     payload_json    |-> serialize_payload(item.payload).payload_json,
     payload_sha256  |-> serialize_payload(item.payload).payload_sha256]

\* INSERT ... ON CONFLICT(source_system, source_event_id) DO UPDATE: a row
\* of the same key keeps its place and takes the new payload.
LedgerUpsert(ledger, row) ==
    IF \E i \in 1..Len(ledger) :
           /\ ledger[i].source_system = row.source_system
           /\ ledger[i].source_event_id = row.source_event_id
    THEN [i \in 1..Len(ledger) |->
             IF /\ ledger[i].source_system = row.source_system
                /\ ledger[i].source_event_id = row.source_event_id
             THEN [ledger[i] EXCEPT !.payload_json = row.payload_json,
                                    !.payload_sha256 = row.payload_sha256]
             ELSE ledger[i]]
    ELSE Append(ledger, row)

\* _persist_drift_events
RECURSIVE persist_drift_events(_, _)
persist_drift_events(ledger, drift) ==
    IF drift = <<>> THEN ledger
    ELSE persist_drift_events(LedgerUpsert(ledger, LedgerRow(Head(drift))),
                              Tail(drift))

\* _record_run: INSERT ... ON CONFLICT(boot_id) DO UPDATE.
record_run(runs, boot_id, started_at, status, drift_count, error) ==
    IF \E i \in 1..Len(runs) : runs[i].boot_id = boot_id
    THEN [i \in 1..Len(runs) |->
             IF runs[i].boot_id = boot_id
             THEN [runs[i] EXCEPT !.status = status,
                                  !.drift_count = drift_count,
                                  !.error = error]
             ELSE runs[i]]
    ELSE Append(runs, [boot_id     |-> boot_id,
                       started_at  |-> started_at,
                       status      |-> status,
                       drift_count |-> drift_count,
                       error       |-> error])

(***************************************************************************)
(* Part G: StateReadinessGate                                              *)
(***************************************************************************)

\* StateReadinessGate.__init__; last_rehydrated_at is <<>> for None.
StateReadinessGate ==
    [ready |-> FALSE, last_error |-> NoneVal, last_rehydrated_at |-> <<>>]

mark_ready(gate, rehydrated_at) ==
    [ready |-> TRUE, last_error |-> NoneVal,
     last_rehydrated_at |-> <<rehydrated_at>>]

mark_not_ready_keeps_event(gate, error) ==
    [gate EXCEPT !.last_error = error]

mark_not_ready(gate, error) ==
    [gate EXCEPT !.last_error = error, !.ready = FALSE]

\* What assert_ready does: it returns, or raises RehydrationError.
AssertReady(gate) == IF gate.ready THEN "returned" ELSE "RehydrationError"

(***************************************************************************)
(* Part G: StateRehydrator.boot_rehydrate                                  *)
(***************************************************************************)

\* The locals of a boot_rehydrate call and where it stands:
\*   idle       no call made yet
\*   started    the gate is cleared, the connection is about to be used
\*   fetched    both snapshots are normalized
\*   committed  the with block has committed
\*   failed     an exception reached the except clause
\*   done       the call returned or raised (`raised`)
Rehydrating(pc, runs, boot_id, open_orders, positions, exc, raised) ==
    [pc          |-> pc,
     runs        |-> runs,
     boot_id     |-> boot_id,
     started_at  |-> boot_id,
     open_orders |-> open_orders,
     positions   |-> positions,
     exc         |-> exc,
     raised      |-> raised]

\* str(exc) of what the Kalshi client and sqlite3 raise.
FetchErrors == {"kalshi unavailable"}

DatabaseErrors == {"database is locked"}

RhInitVars ==
    /\ readiness_gate = StateReadinessGate
    /\ state_orders = EmptyTable
    /\ state_positions = EmptyTable
    /\ reconciliation_event_ledger = <<>>
    /\ rehydration_runs = <<>>
    /\ rehydrator = Rehydrating("idle", 0, 0, EmptyTable, EmptyTable,
                                NoneVal, NoneVal)
    /\ rh_now = 0
    /\ rh_asserted = [outcome |-> NoneVal, calls |-> 0]

rhTables == <<state_orders, state_positions, reconciliation_event_ledger,
              rehydration_runs>>

\* boot_rehydrate up to the try: the clock is read once for started_at and
\* boot_id (a later call reads a later millisecond), the gate is cleared.
boot_rehydrate ==
    /\ rehydrator.pc \in {"idle", "done"}
    /\ rehydrator.runs < MaxRuns
    /\ rh_now' = rh_now + 1
    /\ rehydrator' = Rehydrating("started", rehydrator.runs + 1, rh_now',
                                 EmptyTable, EmptyTable, NoneVal, NoneVal)
    /\ readiness_gate' =
           mark_not_ready(readiness_gate, "rehydration in progress")
    /\ UNCHANGED <<rhTables, rh_asserted, notRhVars>>

\* The connection opens, the schema is ensured, both snapshots arrive.
fetch_snapshots(response) ==
    /\ rehydrator.pc = "started"
    /\ rehydrator' =
           [rehydrator EXCEPT
               !.pc = "fetched",
               !.open_orders = normalize_orders(response.orders),
               !.positions = normalize_positions(response.positions)]
    /\ UNCHANGED <<readiness_gate, rhTables, rh_now, rh_asserted, notRhVars>>

\* get_open_orders or get_positions raises.
fetch_snapshots_fails(error) ==
    /\ rehydrator.pc = "started"
    /\ rehydrator' = [rehydrator EXCEPT !.pc = "failed", !.exc = error]
    /\ UNCHANGED <<readiness_gate, rhTables, rh_now, rh_asserted, notRhVars>>

\* Reconciliation, the drift rows and the run row, committed together when
\* the with block is left; the rows written take the time _now_iso() reads,
\* which is the time of the last reading or later.
reconcile_and_commit ==
    /\ rehydrator.pc = "fetched"
    /\ rh_now' \in {rh_now, rh_now + 1}
    /\ LET orders == reconcile_orders(state_orders, rehydrator.open_orders,
                                      rehydrator.boot_id, rh_now')
           positions == reconcile_positions(state_positions,
                                            rehydrator.positions,
                                            rehydrator.boot_id, rh_now')
           drift == orders.drift \o positions.drift
       IN  /\ state_orders' = orders.table
           /\ state_positions' = positions.table
           /\ reconciliation_event_ledger' =
                  persist_drift_events(reconciliation_event_ledger, drift)
           /\ rehydration_runs' =
                  record_run(rehydration_runs, rehydrator.boot_id,
                             rehydrator.started_at, "completed", Len(drift),
                             NoneVal)
    /\ rehydrator' = [rehydrator EXCEPT !.pc = "committed"]
    /\ UNCHANGED <<readiness_gate, rh_asserted, notRhVars>>

\* sqlite3 raises inside the with block (connect, schema, a reconciliation
\* statement, a drift insert, the run row or the commit): the transaction
\* is rolled back.
transaction_fails(error) ==
    /\ rehydrator.pc \in {"started", "fetched"}
    /\ rehydrator' = [rehydrator EXCEPT !.pc = "failed", !.exc = error]
    /\ UNCHANGED <<readiness_gate, rhTables, rh_now, rh_asserted, notRhVars>>

\* mark_ready(rehydrated_at=_now_iso()) after the with block.
rehydrate_mark_ready ==
    /\ rehydrator.pc = "committed"
    /\ rh_now' = rh_now + 1
    /\ readiness_gate' = mark_ready(readiness_gate, rh_now')
    /\ rehydrator' = [rehydrator EXCEPT !.pc = "done"]
    /\ UNCHANGED <<rhTables, rh_asserted, notRhVars>>

\* The except clause: a second connection records the failed run, the gate
\* takes the error, RehydrationError is raised.
record_failed_run ==
    /\ rehydrator.pc = "failed"
    /\ rehydration_runs' =
           record_run(rehydration_runs, rehydrator.boot_id,
                      rehydrator.started_at, "failed", 0, rehydrator.exc)
    /\ readiness_gate' = mark_not_ready(readiness_gate, rehydrator.exc)
    /\ rehydrator' = [rehydrator EXCEPT !.pc = "done",
                                        !.raised = "RehydrationError"]
    /\ UNCHANGED <<state_orders, state_positions,
                   reconciliation_event_ledger, rh_now, rh_asserted,
                   notRhVars>>

\* The except clause when its own connection, schema statement, run row or
\* commit raises: that exception leaves boot_rehydrate.
record_failed_run_fails ==
    /\ rehydrator.pc = "failed"
    /\ rehydrator' = [rehydrator EXCEPT !.pc = "done",
                                        !.raised = "OperationalError"]
    /\ UNCHANGED <<readiness_gate, rhTables, rh_now, rh_asserted, notRhVars>>

\* StateReadinessGate.assert_ready, called from any thread at any time.
assert_ready ==
    /\ rh_asserted' = [outcome |-> AssertReady(readiness_gate),
                       calls   |-> (rh_asserted.calls + 1) % 2]
    /\ UNCHANGED <<readiness_gate, rhTables, rehydrator, rh_now, notRhVars>>

(***************************************************************************)
(* Part K: LifecycleState, SidecarCompositionRoot                          *)
(***************************************************************************)

\* LifecycleState(): the dataclass defaults.
LifecycleState ==
    [config_ready       |-> FALSE,
     db_ready           |-> FALSE,
     connectors_ready   |-> FALSE,
     rate_limiter_ready |-> FALSE,
     rest_ready         |-> FALSE,
     websocket_ready    |-> FALSE,
     rehydrated         |-> FALSE,
     consumers_ready    |-> FALSE,
     routes_ready       |-> FALSE,
     strategy_enabled   |-> FALSE,
     execution_enabled  |-> FALSE,
     tauri_ready        |-> FALSE,
     ui_ready           |-> FALSE,
     shutdown_phase     |-> "running",
     last_error         |-> NoneVal]

\* The hooks shutdown() looks for on what the factories returned.
ShutdownHooks ==
    {"connectors.stop_intake", "db.flush_queue", "connectors.close",
     "db.close", "websocket_service.stop", "rest_service.stop"}

\* The hooks the resolved objects of one root offer.
HookSupport ==
    {ShutdownHooks, {}, {"db.flush_queue", "connectors.close"},
     ShutdownHooks \ {"connectors.stop_intake", "websocket_service.stop"}}

\* len(dependency_health_checks) of the roots explored.
HealthCheckCounts == 0..2

\* str(exc) of what a stage or a hook raises.
StageErrors == {"stage failed"}

\* A stage or hook call returns or raises.
Outcomes == {"returns"} \cup StageErrors

\* The root's configuration, the stage start() is about to run (pc), the
\* health check the loop is at, and the phase shutdown() is about to run.
RootAt(pc, checks, supports) ==
    [pc           |-> pc,
     checks       |-> checks,
     supports     |-> supports,
     check        |-> 0,
     failed_stage |-> NoneVal,
     raised       |-> NoneVal,
     down         |-> "none",
     down_raised  |-> NoneVal]

RootInitVars ==
    /\ lifecycle = LifecycleState
    /\ resolved = {}
    /\ root = RootAt("unbuilt", 0, {})
    /\ root_events = <<>>
    /\ published = <<>>

\* SidecarCompositionRoot(...): the factories and health checks are given.
SidecarCompositionRoot(checks, supports) ==
    /\ root.pc = "unbuilt"
    /\ root' = RootAt("built", checks, supports)
    /\ UNCHANGED <<lifecycle, resolved, root_events, published, notRootVars>>

\* start() is called and runs up to its first stage.
root_start ==
    /\ root.pc = "built"
    /\ root.down = "none"
    /\ root' = [root EXCEPT !.pc = "config"]
    /\ UNCHANGED <<lifecycle, resolved, root_events, published, notRootVars>>

StartFails_without_publish(stage, message) ==
    /\ lifecycle' = [lifecycle EXCEPT !.last_error = message,
                                      !.tauri_ready = FALSE,
                                      !.ui_ready = FALSE]
    /\ published' = published
    /\ root' = [root EXCEPT !.pc = "raised", !.failed_stage = stage,
                            !.raised = message]
    /\ UNCHANGED resolved

\* The except clause of start(): last_error, the two flags, one publish,
\* and the exception goes on to the caller.
StartFails(stage, message) ==
    /\ lifecycle' = [lifecycle EXCEPT !.last_error = message,
                                      !.tauri_ready = FALSE,
                                      !.ui_ready = FALSE]
    /\ published' = Append(published, lifecycle')
    /\ root' = [root EXCEPT !.pc = "raised", !.failed_stage = stage,
                            !.raised = message]
    /\ UNCHANGED resolved

\* A stage that returned: its key is resolved, its flags are set, the state
\* is published when the code publishes after it.
StageReturns(next, keys, state, publishes) ==
    /\ resolved' = resolved \cup keys
    /\ lifecycle' = state
    /\ published' = IF publishes THEN Append(published, state) ELSE published
    /\ root' = [root EXCEPT !.pc = next]

\* One stage of start(): invoked, then returned or raised.
Stage(stage, next, keys, state, publishes, outcome) ==
    /\ root.pc = stage
    /\ root_events' = Append(root_events, stage)
    /\ IF outcome = "returns"
       THEN StageReturns(next, keys, state, publishes)
       ELSE StartFails(stage, outcome)
    /\ UNCHANGED notRootVars

config_stage(outcome) ==
    Stage("config", "db", {"config"},
          [lifecycle EXCEPT !.config_ready = TRUE], TRUE, outcome)

db_stage(outcome) ==
    Stage("db", "connectors", {"db"},
          [lifecycle EXCEPT !.db_ready = TRUE], TRUE, outcome)

connectors_stage(outcome) ==
    Stage("connectors", "rate_limiter", {"connectors"},
          [lifecycle EXCEPT !.connectors_ready = TRUE], TRUE, outcome)

rate_limiter_stage(outcome) ==
    Stage("rate_limiter", "rest_service", {"rate_limiter"},
          [lifecycle EXCEPT !.rate_limiter_ready = TRUE], TRUE, outcome)

rest_service_stage(outcome) ==
    Stage("rest_service", "websocket_service", {"rest_service"},
          [lifecycle EXCEPT !.rest_ready = TRUE], TRUE, outcome)

websocket_service_stage_enables_strategy(outcome) ==
    Stage("websocket_service", "boot_rehydrate", {"websocket_service"},
          [lifecycle EXCEPT !.websocket_ready = TRUE,
                            !.strategy_enabled = TRUE,
                            !.execution_enabled = TRUE],
          TRUE, outcome)

websocket_service_stage_then_consumers(outcome) ==
    Stage("websocket_service", "consumer_starter", {"websocket_service"},
          [lifecycle EXCEPT !.websocket_ready = TRUE], TRUE, outcome)

websocket_service_stage(outcome) ==
    Stage("websocket_service", "boot_rehydrate", {"websocket_service"},
          [lifecycle EXCEPT !.websocket_ready = TRUE], TRUE, outcome)

\* rehydrator_factory(...).boot_rehydrate(), then the three flags; the
\* health check loop follows and is left at once when the list is empty.
boot_rehydrate_stage(outcome) ==
    Stage("boot_rehydrate",
          IF root.checks = 0 THEN "rest_service.start" ELSE "healthcheck",
          {},
          [lifecycle EXCEPT !.rehydrated = TRUE,
                            !.strategy_enabled = TRUE,
                            !.execution_enabled = TRUE],
          TRUE, outcome)

\* One turn of _wait_for_dependencies_healthy: the check answers healthy or
\* not, or raises.
healthcheck(answer) ==
    /\ root.pc = "healthcheck"
    /\ root_events' = Append(root_events, "healthcheck")
    /\ CASE answer = "healthy" ->
              /\ root' = [root EXCEPT
                     !.check = @ + 1,
                     !.pc = IF root.check + 1 = root.checks
                            THEN "rest_service.start" ELSE "healthcheck"]
              /\ UNCHANGED <<lifecycle, resolved, published>>
         [] answer = "unhealthy" ->
              StartFails("healthcheck",
                         "required dependency healthcheck failed")
         [] OTHER -> StartFails("healthcheck", answer)
    /\ UNCHANGED notRootVars

rest_service_start(outcome) ==
    Stage("rest_service.start", "websocket_service.start", {}, lifecycle,
          FALSE, outcome)

websocket_service_start(outcome) ==
    Stage("websocket_service.start", "consumer_starter", {}, lifecycle,
          FALSE, outcome)

consumer_starter(outcome) ==
    Stage("consumer_starter", "route_starter", {},
          [lifecycle EXCEPT !.consumers_ready = TRUE], TRUE, outcome)

route_starter(outcome) ==
    Stage("route_starter", "returned", {},
          [lifecycle EXCEPT !.routes_ready = TRUE,
                            !.tauri_ready = TRUE,
                            !.ui_ready = TRUE],
          TRUE, outcome)

\* One part of shutdown(): the phase is set and published where the code
\* does so, then the hook is called if its target is resolved and offers
\* it; a hook that raises ends shutdown().
ShutdownStep(at, next, phase, key, hook, outcome) ==
    LET invoked == key \in resolved /\ hook \in root.supports
        state == IF phase = NoneVal THEN lifecycle
                 ELSE [lifecycle EXCEPT !.shutdown_phase = phase]
    IN  /\ root.down = at
        /\ outcome # "returns" => invoked
        /\ lifecycle' = state
        /\ published' = IF phase = NoneVal THEN published
                        ELSE Append(published, state)
        /\ root_events' = IF invoked THEN Append(root_events, hook)
                          ELSE root_events
        /\ root' = IF outcome = "returns" THEN [root EXCEPT !.down = next]
                   ELSE [root EXCEPT !.down = "raised",
                                     !.down_raised = outcome]
        /\ UNCHANGED <<resolved, notRootVars>>

\* shutdown() is called, before, after or instead of a start() that has
\* ended: phase stop_intake and _stop_intake.
shutdown_stop_intake(outcome) ==
    /\ root.pc \in {"built", "returned", "raised"}
    /\ ShutdownStep("none", "flush_queue", "stop_intake", "connectors",
                    "connectors.stop_intake", outcome)

shutdown_flush_queue_closes_db(outcome) ==
    ShutdownStep("flush_queue", "close_connectors", "flush_queue", "db",
                 "db.close", outcome)

shutdown_flush_queue(outcome) ==
    ShutdownStep("flush_queue", "close_connectors", "flush_queue", "db",
                 "db.flush_queue", outcome)

shutdown_close_connectors(outcome) ==
    ShutdownStep("close_connectors", "close_db", "close_connectors",
                 "connectors", "connectors.close", outcome)

shutdown_close_db(outcome) ==
    ShutdownStep("close_db", "stop_websocket", "close_db", "db", "db.close",
                 outcome)

shutdown_stop_websocket(outcome) ==
    ShutdownStep("stop_websocket", "stop_rest", NoneVal, "websocket_service",
                 "websocket_service.stop", outcome)

shutdown_stop_rest(outcome) ==
    ShutdownStep("stop_rest", "stopped", NoneVal, "rest_service",
                 "rest_service.stop", outcome)

\* The end of shutdown(): phase stopped, the two flags cleared, published.
shutdown_stopped ==
    /\ root.down = "stopped"
    /\ lifecycle' = [lifecycle EXCEPT !.shutdown_phase = "stopped",
                                      !.tauri_ready = FALSE,
                                      !.ui_ready = FALSE]
    /\ published' = Append(published, lifecycle')
    /\ root' = [root EXCEPT !.down = "done"]
    /\ UNCHANGED <<resolved, root_events, notRootVars>>

(***************************************************************************)
(* Part A: AuthNonceGuard                                                  *)
(***************************************************************************)

\* headers.get("x-pt-auth-token", ""): "" stands for a missing header too.
TokenInputs == {"trusted", "wrong", ""}

\* headers.get("x-pt-nonce", "")
NonceInputs == {"", "abc", "1.5", "-1", "0", "1", " 2 ", "2", "3"}

\* int(raw_nonce): <<n>> for the integer, <<>> where int raises ValueError.
ParseInt(raw) ==
    CASE raw = "-1" -> <<-1>>
      [] raw = "0" -> <<0>>
      [] raw = "1" -> <<1>>
      [] raw \in {"2", " 2 "} -> <<2>>
      [] raw = "3" -> <<3>>
      [] OTHER -> <<>>

Headers(token, nonce) == [token |-> token, nonce |-> nonce]

\* AuthNonceGuard(expected_token=...)
AuthNonceGuard(expected_token) ==
    [expected_token |-> expected_token, last_nonce_by_token |-> EmptyTable]

\* self.last_nonce_by_token[token] = nonce
StoreNonce(g, token, nonce) ==
    [g EXCEPT !.last_nonce_by_token = TablePut(@, token, nonce)]

Validate_accepts_equal(g, headers) ==
    LET token == headers.token
        parsed == ParseInt(headers.nonce)
        Raise(reason) == [guard |-> g, reason |-> reason]
    IN  IF token # g.expected_token THEN Raise("invalid_token")
        ELSE IF headers.nonce = "" THEN Raise("missing_nonce")
        ELSE IF parsed = <<>> THEN Raise("invalid_nonce")
        ELSE IF /\ token \in DOMAIN g.last_nonce_by_token
                /\ parsed[1] < g.last_nonce_by_token[token]
             THEN Raise("replayed_nonce")
        ELSE [guard |-> StoreNonce(g, token, parsed[1]), reason |-> NoneVal]

\* AuthNonceGuard.validate: the guard afterwards and the reason of the
\* ApiError raised, NoneVal when the call returns.
Validate(g, headers) ==
    LET token == headers.token
        parsed == ParseInt(headers.nonce)
        Raise(reason) == [guard |-> g, reason |-> reason]
    IN  IF token # g.expected_token THEN Raise("invalid_token")
        ELSE IF headers.nonce = "" THEN Raise("missing_nonce")
        ELSE IF parsed = <<>> THEN Raise("invalid_nonce")
        ELSE IF /\ token \in DOMAIN g.last_nonce_by_token
                /\ parsed[1] <= g.last_nonce_by_token[token]
             THEN Raise("replayed_nonce")
        ELSE [guard |-> StoreNonce(g, token, parsed[1]), reason |-> NoneVal]

AuthInitVars ==
    /\ guard = AuthNonceGuard("trusted")
    /\ guard_accepted = <<>>
    /\ guard_result = [headers |-> Headers("", ""), reason |-> NoneVal,
                       calls |-> 0]

\* One validate call, as ApiRouter makes it for every request.
validate(headers) ==
    LET result == Validate(guard, headers)
    IN  /\ guard' = result.guard
        /\ guard_accepted' =
               IF result.reason = NoneVal
               THEN Append(guard_accepted, ParseInt(headers.nonce)[1])
               ELSE guard_accepted
        /\ guard_result' = [headers |-> headers, reason |-> result.reason,
                            calls |-> (guard_result.calls + 1) % 2]
        /\ UNCHANGED notAuthVars

(***************************************************************************)
(* Part M: KalshiClient.process_market_data_message                        *)
(***************************************************************************)
\* process_market_data_message is called at most this many times in a run.
MaxProcessed == 2

\* Raw messages.  `channel` is raw_message["channel"] and `type` the type
\* field of the payload (NoneVal: absent); `sequence` and `timestamp` are
\* the payload's sequence and timestamp fields; `body` says whether the
\* fields the channel's normalizer reads (side, market_id, price, size,
\* liquidity) are all there and well formed.
RawMessages ==
    [channel   : {"orderbook_delta", "trade", "ticker", NoneVal},
     type      : {NoneVal, "trade"},
     sequence  : {NoneVal, "7", "x"},
     timestamp : {NoneVal, "2024-01-01T00:00:00Z",
                  "2024-01-01T00:00:00+00:00", "yesterday"},
     body      : {"valid", "invalid"}]

\* channel = str(raw.get("channel") or payload.get("type") or
\*               raw.get("type") or "")
ChannelOf(raw_message) ==
    IF raw_message.channel # NoneVal THEN raw_message.channel
    ELSE IF raw_message.type # NoneVal THEN raw_message.type
    ELSE ""

\* _extract_sequence: int(sequence or 0); <<>> when int() raises.
extract_sequence(raw_message) ==
    CASE raw_message.sequence = NoneVal -> <<0>>
      [] raw_message.sequence = "7" -> <<7>>
      [] OTHER -> <<>>

\* KalshiClient._normalize_timestamp: the UTC time with a Z suffix; <<>>
\* when the value is None (ValueError "Missing timestamp") or is not an ISO
\* time (ValueError from fromisoformat).
client_normalize_timestamp(value) ==
    CASE value = "2024-01-01T00:00:00Z" -> <<"2024-01-01T00:00:00Z">>
      [] value = "2024-01-01T00:00:00+00:00" -> <<"2024-01-01T00:00:00Z">>
      [] OTHER -> <<>>

\* _normalize_orderbook_delta / _normalize_trade: the event, or <<>> when a
\* field is missing or malformed.
normalize_event(schema, raw_message) ==
    IF \/ raw_message.body # "valid"
       \/ (schema = "orderbook_delta" /\ extract_sequence(raw_message) = <<>>)
       \/ client_normalize_timestamp(raw_message.timestamp) = <<>>
    THEN <<>>
    ELSE <<[schema    |-> schema,
            sequence  |-> IF schema = "orderbook_delta"
                          THEN extract_sequence(raw_message)[1] ELSE 0,
            timestamp |-> client_normalize_timestamp(raw_message.timestamp)[1]]>>

\* _normalize_message: the normalized events; a normalizer that raises is
\* re-raised as ValueError "Unable to parse market data message".
normalize_message(raw_message) ==
    LET channel == ChannelOf(raw_message)
    IN  IF channel \in {"orderbook_delta", "trade"}
        THEN IF normalize_event(channel, raw_message) = <<>>
             THEN [raised |-> "Unable to parse market data message",
                   events |-> <<>>]
             ELSE [raised |-> NoneVal,
                   events |-> normalize_event(channel, raw_message)]
        ELSE [raised |-> NoneVal, events |-> <<>>]

\* The envelope published for a normalized event.
MarketDataEnvelope(event, source_sequence, source_timestamp) ==
    [source           |-> "kalshi",
     schema           |-> event.schema,
     source_sequence  |-> source_sequence,
     source_timestamp |-> source_timestamp,
     payload          |-> event]

\* What a call does: the exception it raises (NoneVal: none), the events
\* it returns and the envelopes it publishes.
ProcessMessage(raw_message) ==
    LET normalized == normalize_message(raw_message)
        sequence == extract_sequence(raw_message)
        timestamp == client_normalize_timestamp(raw_message.timestamp)
        outcome(raised, events, envelopes) ==
            [raised |-> raised, returned |-> events, published |-> envelopes]
    IN  IF normalized.raised # NoneVal
        THEN outcome(normalized.raised, <<>>, <<>>)
        ELSE IF sequence = <<>>
        THEN outcome("invalid literal for int()", <<>>, <<>>)
        ELSE IF timestamp = <<>>
        THEN outcome(IF raw_message.timestamp = NoneVal
                     THEN "Missing timestamp"
                     ELSE "Invalid isoformat string", <<>>, <<>>)
        ELSE outcome(NoneVal, normalized.events,
                     [k \in 1..Len(normalized.events) |->
                         MarketDataEnvelope(normalized.events[k],
                                            sequence[1], timestamp[1])])

MdInitVars ==
    /\ event_bus = <<>>
    /\ md_call = [message |-> NoneVal, raised |-> NoneVal, returned |-> <<>>,
                  calls |-> 0]

\* process_market_data_message(raw_message), with an event publisher that
\* accepts every envelope.
process_market_data_message(raw_message) ==
    LET done == ProcessMessage(raw_message)
    IN  /\ md_call.calls < MaxProcessed
        /\ event_bus' = event_bus \o done.published
        /\ md_call' = [message |-> raw_message, raised |-> done.raised,
                       returned |-> done.returned,
                       calls |-> md_call.calls + 1]
        /\ UNCHANGED notMdVars

(***************************************************************************)
(* Part J: UiEvent                                                         *)
(***************************************************************************)
EVENT_TOPICS == {"market", "order", "position", "risk_alert"}

ClientIds == {"c1", "c2"}

Payloads == {1, 2}

\* Raw events that carry their number in the stream as payload, so that two
\* events are never equal.
NumberedRawEvents ==
    [topic : {"market", "order", "risk_alert"}, critical : {TRUE},
     i : 1..MaxStreamed]

\* The raw events streamed while the clock moves.
LiveRawEvents == {[topic |-> "market", critical |-> FALSE, i |-> 1]}

\* Raw events handed to stream_event.  `critical` is the value of
\* raw_event.get("critical") or payload.get("critical"); `i` stands for the
\* payload mapping; no timestamp field is given, so the clock is read.
RawEvents ==
    [topic : {"market", "unknown"}, critical : BOOLEAN, i : Payloads]
        \cup [topic : {"risk_alert", "RISK_ALERT"}, critical : {TRUE}, i : Payloads]

\* UiEvent._normalize_topic: the topic field lower-cased when it is a
\* supported topic; the raw events of the model carry no schema field, so
\* anything else raises ValueError (NoneVal here).
normalize_topic(raw_event) ==
    LET topic == Lower(raw_event.topic)
    IN  IF topic \in EVENT_TOPICS THEN topic ELSE NoneVal

\* UiEvent._normalize_timestamp with no timestamp candidate: now().
normalize_timestamp(raw_event, now) == now

\* UiEvent.from_mapping
from_mapping(raw_event, now) ==
    LET topic == normalize_topic(raw_event)
    IN  [topic     |-> topic,
         payload   |-> raw_event.i,
         timestamp |-> normalize_timestamp(raw_event, now),
         critical  |-> (topic = "risk_alert" /\ raw_event.critical)]

\* UiEvent.to_frame
to_frame(event) ==
    [type      |-> "event",
     topic     |-> event.topic,
     timestamp |-> event.timestamp,
     critical  |-> event.critical,
     payload   |-> event.payload]

(***************************************************************************)
(* Part J: ApiWebSocketConnectionManager                                   *)
(***************************************************************************)
\* _ClientState(client=..., subscriptions=...)
NewClientState(subscriptions, now) ==
    [subscriptions        |-> subscriptions,
     queue                |-> <<>>,
     dropped_non_critical |-> 0,
     connected_at         |-> now,
     last_seen_at         |-> now,
     last_ping_at         |-> now]

\* _sanitize_topics: the lower-cased topics.
sanitize_topics(topics) == {Lower(t) : t \in topics}

\* _sanitize_topics raises ValueError when a topic is not supported.
sanitize_raises(topics) == sanitize_topics(topics) \ EVENT_TOPICS # {}

\* Index of the first queued event that is not critical, 0 when all are.
FirstNonCritical(queue) ==
    IF \E k \in 1..Len(queue) : ~queue[k].critical
    THEN CHOOSE k \in 1..Len(queue) :
            /\ ~queue[k].critical
            /\ \A j \in 1..(k - 1) : queue[j].critical
    ELSE 0

\* The sequence without its k-th element.
RemoveAt(s, k) == SubSeq(s, 1, k - 1) \o SubSeq(s, k + 1, Len(s))

\* deque.remove(value): removes the first element equal to value.
DequeRemove(queue, value) ==
    RemoveAt(queue, CHOOSE k \in 1..Len(queue) :
                        /\ queue[k] = value
                        /\ \A j \in 1..(k - 1) : queue[j] # value)

\* _enqueue_event with the capacity test off by one (<= for <).
enqueue_event_off_by_one(state, event) ==
    IF Len(state.queue) <= max_queue_size
    THEN [state EXCEPT !.queue = Append(@, event)]
    ELSE IF event.critical
         THEN LET k == FirstNonCritical(state.queue)
              IN  IF k # 0
                  THEN [state EXCEPT
                          !.queue = Append(DequeRemove(@, state.queue[k]), event),
                          !.dropped_non_critical = @ + 1]
                  ELSE [state EXCEPT !.queue = Append(Tail(@), event)]
         ELSE [state EXCEPT !.dropped_non_critical = @ + 1]

\* _enqueue_event evicting the head, critical or not, for a critical event.
enqueue_event_evict_head(state, event) ==
    IF Len(state.queue) < max_queue_size
    THEN [state EXCEPT !.queue = Append(@, event)]
    ELSE IF event.critical
         THEN IF FirstNonCritical(state.queue) # 0
              THEN [state EXCEPT !.queue = Append(Tail(@), event),
                                 !.dropped_non_critical = @ + 1]
              ELSE [state EXCEPT !.queue = Append(Tail(@), event)]
         ELSE [state EXCEPT !.dropped_non_critical = @ + 1]

\* _enqueue_event making room for a non-critical event by dropping the oldest.
enqueue_event_drop_oldest(state, event) ==
    IF Len(state.queue) < max_queue_size
    THEN [state EXCEPT !.queue = Append(@, event)]
    ELSE IF event.critical
         THEN LET k == FirstNonCritical(state.queue)
              IN  IF k # 0
                  THEN [state EXCEPT
                          !.queue = Append(DequeRemove(@, state.queue[k]), event),
                          !.dropped_non_critical = @ + 1]
                  ELSE [state EXCEPT !.queue = Append(Tail(@), event)]
         ELSE [state EXCEPT !.queue = Append(Tail(@), event),
                            !.dropped_non_critical = @ + 1]

\* _enqueue_event dropping the newest queued event when all are critical.
enqueue_event_drops_tail(state, event) ==
    IF Len(state.queue) < max_queue_size
    THEN [state EXCEPT !.queue = Append(@, event)]
    ELSE IF event.critical
         THEN LET k == FirstNonCritical(state.queue)
              IN  IF k # 0
                  THEN [state EXCEPT
                          !.queue = Append(DequeRemove(@, state.queue[k]), event),
                          !.dropped_non_critical = @ + 1]
                  ELSE [state EXCEPT
                          !.queue = Append(SubSeq(@, 1, Len(@) - 1), event)]
         ELSE [state EXCEPT !.dropped_non_critical = @ + 1]

\* _enqueue_event dropping a non-critical event without counting it.
enqueue_event_uncounted_drop(state, event) ==
    IF Len(state.queue) < max_queue_size
    THEN [state EXCEPT !.queue = Append(@, event)]
    ELSE IF event.critical
         THEN LET k == FirstNonCritical(state.queue)
              IN  IF k # 0
                  THEN [state EXCEPT
                          !.queue = Append(DequeRemove(@, state.queue[k]), event),
                          !.dropped_non_critical = @ + 1]
                  ELSE [state EXCEPT !.queue = Append(Tail(@), event)]
         ELSE state

\* ApiWebSocketConnectionManager._enqueue_event
enqueue_event(state, event) ==
    IF Len(state.queue) < max_queue_size
    THEN [state EXCEPT !.queue = Append(@, event)]
    ELSE IF event.critical
         THEN LET k == FirstNonCritical(state.queue)
              IN  IF k # 0
                  THEN [state EXCEPT
                          !.queue = Append(DequeRemove(@, state.queue[k]), event),
                          !.dropped_non_critical = @ + 1]
                  ELSE [state EXCEPT !.queue = Append(Tail(@), event)]
         ELSE [state EXCEPT !.dropped_non_critical = @ + 1]

Connected == DOMAIN clients

NoEvent == [topic |-> NoneVal, payload |-> 0, timestamp |-> 0, critical |-> FALSE]

\* The branch of _enqueue_event a stream_event call takes for a client.
enqueue_path(state, event) ==
    IF event.topic \notin state.subscriptions THEN "not_subscribed"
    ELSE IF Len(state.queue) < max_queue_size THEN "append"
    ELSE IF ~event.critical THEN "drop"
    ELSE IF FirstNonCritical(state.queue) # 0 THEN "evict_non_critical"
    ELSE "evict_head"

\* A call record: the operation, its arguments, the frames it handed to
\* client.send_json (in order) and, for stream_event, the branch per client.
\* For heartbeat: `at` is the time the call worked with and `pinged` the
\* clients whose send_ping was called, which are the ids it returns.
NoCall == [op |-> "init", client_id |-> NoneVal, event |-> NoEvent,
           max_messages |-> <<>>, frames |-> <<>>, path |-> <<>>,
           at |-> 0, pinged |-> {}]

WsCall(call) == wsOp' = call

\* Topic collections passed to connect (empty: subscriptions=None) and to
\* subscribe / unsubscribe.
ConnectInputs == {{}, {"unknown"}}

TopicInputs == {{"MARKET"}, {"market", "unknown"}}

\* connect(client_id, client, subscriptions): None or an empty collection
\* means every topic; an unsupported topic raises and nothing changes.
connect(client_id, subscriptions) ==
    LET requested == IF subscriptions = {} THEN EVENT_TOPICS ELSE subscriptions
    IN  /\ ~sanitize_raises(requested)
        /\ clients' = [c \in Connected \cup {client_id} |->
                          IF c = client_id
                          THEN NewClientState(sanitize_topics(requested), wsNow)
                          ELSE clients[c]]
        /\ WsCall([NoCall EXCEPT !.op = "connect", !.client_id = client_id])
        /\ UNCHANGED <<wsNow, streamed>>
        /\ UNCHANGED notWsVars

\* disconnect(client_id): the state is popped (and the client closed).
disconnect(client_id) ==
    /\ client_id \in Connected
    /\ clients' = [c \in Connected \ {client_id} |-> clients[c]]
    /\ WsCall([NoCall EXCEPT !.op = "disconnect", !.client_id = client_id])
    /\ UNCHANGED <<wsNow, streamed>>
    /\ UNCHANGED notWsVars

\* subscribe(client_id, topics)
subscribe(client_id, topics) ==
    /\ client_id \in Connected
    /\ ~sanitize_raises(topics)
    /\ clients' = [clients EXCEPT
                      ![client_id].subscriptions = @ \cup sanitize_topics(topics),
                      ![client_id].last_seen_at = wsNow]
    /\ WsCall([NoCall EXCEPT !.op = "subscribe", !.client_id = client_id])
    /\ UNCHANGED <<wsNow, streamed>>
    /\ UNCHANGED notWsVars

\* unsubscribe(client_id, topics)
unsubscribe(client_id, topics) ==
    /\ client_id \in Connected
    /\ ~sanitize_raises(topics)
    /\ clients' = [clients EXCEPT
                      ![client_id].subscriptions = @ \ sanitize_topics(topics),
                      ![client_id].last_seen_at = wsNow]
    /\ WsCall([NoCall EXCEPT !.op = "unsubscribe", !.client_id = client_id])
    /\ UNCHANGED <<wsNow, streamed>>
    /\ UNCHANGED notWsVars

\* stream_event(raw_event): a raw event with no usable topic raises before
\* any client is touched.
stream_event(raw_event) ==
    LET event == from_mapping(raw_event, wsNow)
    IN  /\ streamed < MaxStreamed
        /\ event.topic # NoneVal
        /\ clients' = [c \in Connected |->
                          IF event.topic \in clients[c].subscriptions
                          THEN enqueue_event(clients[c], event)
                          ELSE clients[c]]
        /\ streamed' = streamed + 1
        /\ WsCall([NoCall EXCEPT
                     !.op = "stream_event", !.event = event,
                     !.path = [c \in Connected |-> enqueue_path(clients[c], event)]])
        /\ UNCHANGED wsNow
        /\ UNCHANGED notWsVars

\* The number of frames a flush sends.
FlushCount(queue, max_messages) ==
    LET limit == IF max_messages # <<>> THEN max_messages[1] ELSE Len(queue)
    IN  IF limit < 0 THEN 0
        ELSE IF limit < Len(queue) THEN limit ELSE Len(queue)

\* flush(client_id, max_messages) applied to one client state.
flush_state(state, max_messages, now) ==
    LET sent == FlushCount(state.queue, max_messages)
    IN  [state EXCEPT
            !.queue = SubSeq(@, sent + 1, Len(@)),
            !.last_seen_at = now]

\* flush sending the newest queued events first.
flush_frames_newest_first(state, max_messages) ==
    [k \in 1..FlushCount(state.queue, max_messages) |->
        to_frame(state.queue[Len(state.queue) + 1 - k])]

\* The frames flush hands to client.send_json, in order.
flush_frames(state, max_messages) ==
    [k \in 1..FlushCount(state.queue, max_messages) |-> to_frame(state.queue[k])]

\* max_messages: <<>> is None, <<n>> is the number n.
MaxMessagesInputs == {<<>>, <<0>>, <<1>>}

FifoMaxMessagesInputs == {<<>>, <<-1>>, <<1>>}

flush(client_id, max_messages) ==
    /\ client_id \in Connected
    /\ clients' = [clients EXCEPT
                      ![client_id] = flush_state(@, max_messages, wsNow)]
    /\ WsCall([NoCall EXCEPT
                 !.op = "flush", !.client_id = client_id,
                 !.max_messages = max_messages,
                 !.frames = flush_frames(clients[client_id], max_messages)])
    /\ UNCHANGED <<wsNow, streamed>>
    /\ UNCHANGED notWsVars

\* heartbeat(at): `at or datetime.now(UTC)`; <<>> is None.
AtInputs == {<<>>} \cup {<<t>> : t \in 0..MaxWsNow}

\* The clients a heartbeat at `now` pings.
due_for_ping_strict(state, now) ==
    now - state.last_ping_at > heartbeat_interval

due_for_ping(state, now) ==
    now - state.last_ping_at >= heartbeat_interval

\* heartbeat(at): pings every client whose last ping is at least
\* heartbeat_interval old and returns their ids; send_ping returns.
heartbeat(at) ==
    LET now == IF at # <<>> THEN at[1] ELSE wsNow
        pinged == {c \in Connected : due_for_ping(clients[c], now)}
    IN  /\ clients' = [c \in Connected |->
                          IF c \in pinged
                          THEN [clients[c] EXCEPT !.last_ping_at = now]
                          ELSE clients[c]]
        /\ WsCall([NoCall EXCEPT
                     !.op = "heartbeat", !.at = now, !.pinged = pinged])
        /\ UNCHANGED <<wsNow, streamed>>
        /\ UNCHANGED notWsVars

\* get_client_stats(client_id) of a registered client.
get_client_stats(client_id) ==
    [subscriptions        |-> clients[client_id].subscriptions,
     queued               |-> Len(clients[client_id].queue),
     dropped_non_critical |-> clients[client_id].dropped_non_critical,
     last_seen_at         |-> clients[client_id].last_seen_at,
     last_ping_at         |-> clients[client_id].last_ping_at]

\* The specifications that do not follow a client's frames.
NoWsLog == UNCHANGED wsLogVars

\* The record of a call: a stream_event offers its event to every client
\* subscribed to the topic, a flush adds the frames it sent.
WsLog ==
    /\ ws_offered' =
          [c \in ClientIds |->
              IF /\ wsOp'.op = "stream_event"
                 /\ c \in Connected
                 /\ wsOp'.event.topic \in clients[c].subscriptions
              THEN Append(ws_offered[c], wsOp'.event)
              ELSE ws_offered[c]]
    /\ ws_sent' =
          [c \in ClientIds |->
              IF wsOp'.op = "flush" /\ wsOp'.client_id = c
              THEN ws_sent[c] \o wsOp'.frames
              ELSE ws_sent[c]]
    /\ ws_mark' =
          [c \in ClientIds |->
              IF wsOp'.op = "connect" /\ wsOp'.client_id = c
              THEN [offered |-> Len(ws_offered[c]), sent |-> Len(ws_sent[c])]
              ELSE ws_mark[c]]

\* The wall clock moves on between two calls of the manager.
ws_tick ==
    /\ wsNow < MaxWsNow
    /\ wsNow' = wsNow + 1
    /\ WsCall([NoCall EXCEPT !.op = "tick"])
    /\ UNCHANGED <<clients, streamed>>
    /\ UNCHANGED notWsVars

WsInitVars ==
    /\ clients = <<>>
    /\ wsNow = 0
    /\ streamed = 0
    /\ wsOp = NoCall
    /\ ws_offered = [c \in ClientIds |-> <<>>]
    /\ ws_sent = [c \in ClientIds |-> <<>>]
    /\ ws_mark = [c \in ClientIds |-> [offered |-> 0, sent |-> 0]]

\* Every part starts as its constructor leaves it.
InitVars == WsInitVars /\ DbInitVars /\ RlInitVars /\ HttpInitVars
            /\ StreamInitVars /\ RhInitVars /\ RootInitVars
            /\ AuthInitVars /\ MdInitVars

WsInit == InitVars

WsNext ==
    \/ \E c \in ClientIds, t \in ConnectInputs : connect(c, t) /\ NoWsLog
    \/ \E c \in ClientIds : disconnect(c) /\ NoWsLog
    \/ \E c \in ClientIds, t \in TopicInputs : subscribe(c, t) /\ NoWsLog
    \/ \E c \in ClientIds, t \in TopicInputs : unsubscribe(c, t) /\ NoWsLog
    \/ \E r \in RawEvents : stream_event(r) /\ NoWsLog
    \/ \E c \in ClientIds, m \in MaxMessagesInputs : flush(c, m) /\ NoWsLog

SpecWs == WsInit /\ [][WsNext]_vars

\* The manager with its heartbeat and a moving clock.
WsLiveNext ==
    \/ \E c \in ClientIds : connect(c, {}) /\ NoWsLog
    \/ \E r \in LiveRawEvents : stream_event(r) /\ NoWsLog
    \/ flush("c1", <<>>) /\ NoWsLog
    \/ \E at \in AtInputs : heartbeat(at) /\ NoWsLog
    \/ ws_tick /\ NoWsLog

SpecWsLive == WsInit /\ [][WsLiveNext]_vars

\* The manager with numbered events and the record of what a client was
\* offered and sent; one client is followed through every call.
WsFifoNext ==
    \/ connect("c1", {}) /\ WsLog
    \/ disconnect("c1") /\ WsLog
    \/ subscribe("c1", {"MARKET"}) /\ WsLog
    \/ unsubscribe("c1", {"MARKET"}) /\ WsLog
    \/ \E r \in NumberedRawEvents :
          r.i = streamed + 1 /\ stream_event(r) /\ WsLog
    \/ \E m \in FifoMaxMessagesInputs : flush("c1", m) /\ WsLog

SpecWsFifo == WsInit /\ [][WsFifoNext]_vars

DbInit == InitVars

DbNext ==
    \/ start
    \/ start_schema_mismatch
    \/ \E e \in InboundEvents : submit(e)
    \/ stop_call
    \/ stop_put
    \/ stop_await
    \/ worker_get
    \/ worker_attempt_commit
    \/ worker_attempt_locked
    \/ worker_attempt_fatal
    \/ worker_wake
    \/ record_poison
    \/ record_poison_locked

SpecDb == DbInit /\ [][DbNext]_vars

\* The ledger writer together with the downstream processor of its rows.
DbProcNext ==
    \/ DbNext
    \/ \E k \in DOMAIN event_ledger, st \in {"processed", "dead_letter"} :
          mark_processed(k, st)

SpecDbProc == DbInit /\ [][DbProcNext]_vars

RlInit == InitVars

RlNext ==
    \/ \E config \in RateLimitConfigs : SharedRateLimiter(config)
    \/ \E bucket \in RateLimitBucket : acquire(bucket)
    \/ acquire_resume
    \/ \E bucket \in RateLimitBucket : acquire_async(bucket)
    \/ acquire_async_resume
    \/ rl_tick

SpecRl == RlInit /\ [][RlNext]_vars

HttpInit == InitVars

HttpNext ==
    \/ \E max_attempts \in MaxAttemptsInputs : KalshiClient(max_attempts)
    \/ \E method \in Methods : request_call(method)
    \/ request_attempt_ok
    \/ request_attempt_rate_limited
    \/ \E error \in Errors : request_attempt_fails(error)
    \/ request_wake

SpecHttp == HttpInit /\ [][HttpNext]_vars

StreamInit == InitVars

StreamNext ==
    \/ \E channels \in ChannelInputs, acquired \in BOOLEAN :
          stream_market_data(channels, acquired)
    \/ \E acquired \in BOOLEAN : resume_connect(acquired)
    \/ \E acquired \in BOOLEAN : resume_subscribe(acquired)
    \/ \E notice \in DisconnectNotices : resume_await_disconnect(notice)
    \/ resume_final_health
    \/ resume_degraded_health
    \/ resume_reconnect_scheduled
    \/ \E recovered \in SleepReplies, acquired \in BOOLEAN :
          resume_sleep(recovered, acquired)
    \/ \E acquired \in BOOLEAN : resume_restored_health(acquired)
    \/ stream_tick

SpecStream == StreamInit /\ [][StreamNext]_vars

RhInit == InitVars

RhNext ==
    \/ boot_rehydrate
    \/ \E response \in RemoteSnapshots : fetch_snapshots(response)
    \/ \E error \in FetchErrors : fetch_snapshots_fails(error)
    \/ reconcile_and_commit
    \/ \E error \in DatabaseErrors : transaction_fails(error)
    \/ rehydrate_mark_ready
    \/ record_failed_run
    \/ record_failed_run_fails
    \/ assert_ready

SpecRh == RhInit /\ [][RhNext]_vars

RootInit == InitVars

RootNext ==
    \/ \E checks \in HealthCheckCounts, supports \in HookSupport :
           SidecarCompositionRoot(checks, supports)
    \/ root_start
    \/ \E outcome \in Outcomes :
           \/ config_stage(outcome)
           \/ db_stage(outcome)
           \/ connectors_stage(outcome)
           \/ rate_limiter_stage(outcome)
           \/ rest_service_stage(outcome)
           \/ websocket_service_stage(outcome)
           \/ boot_rehydrate_stage(outcome)
           \/ rest_service_start(outcome)
           \/ websocket_service_start(outcome)
           \/ consumer_starter(outcome)
           \/ route_starter(outcome)
    \/ \E answer \in {"healthy", "unhealthy"} \cup StageErrors :
           healthcheck(answer)
    \/ \E outcome \in Outcomes :
           \/ shutdown_stop_intake(outcome)
           \/ shutdown_flush_queue(outcome)
           \/ shutdown_close_connectors(outcome)
           \/ shutdown_close_db(outcome)
           \/ shutdown_stop_websocket(outcome)
           \/ shutdown_stop_rest(outcome)
    \/ shutdown_stopped

SpecRoot == RootInit /\ [][RootNext]_vars

AuthInit == InitVars

AuthNext ==
    \E token \in TokenInputs, nonce \in NonceInputs :
        validate(Headers(token, nonce))

SpecAuth == AuthInit /\ [][AuthNext]_vars

MdInit == InitVars

MdNext == \E m \in RawMessages : process_market_data_message(m)

SpecMd == MdInit /\ [][MdNext]_vars

(***************************************************************************)
(* Part J: properties                                                      *)
(***************************************************************************)
\* A step is a stream_event call that reaches client c with the event e.
StreamsTo(c, e) ==
    /\ streamed' = streamed + 1
    /\ wsOp'.op = "stream_event"
    /\ wsOp'.event = e
    /\ c \in Connected
    /\ e.topic \in clients[c].subscriptions

QueueFull(c) == Len(clients[c].queue) >= max_queue_size

\* C1: the queue of every connected client never holds more than
\* max_queue_size events, whatever calls were made.
C1_QueueNeverExceedsMax ==
    \A c \in Connected : Len(clients[c].queue) <= max_queue_size

\* C1 witness: a stream_event call has met a full queue and the queue is
\* still exactly at max_queue_size.
C1_Witness ==
    /\ wsOp.op = "stream_event"
    /\ \E c \in Connected :
          /\ wsOp.path[c] \in {"drop", "evict_non_critical", "evict_head"}
          /\ Len(clients[c].queue) = max_queue_size

\* C2: a critical event streamed to a subscribed client whose queue is full
\* and holds a non-critical event is enqueued at the tail; the earliest
\* queued non-critical event is the one removed; dropped_non_critical grows
\* by exactly 1; the other queued events keep their order.
C2_CriticalEvictsFirstNonCritical ==
    [][\A c \in ClientIds, e \in {wsOp'.event} :
          (/\ StreamsTo(c, e)
           /\ e.critical
           /\ QueueFull(c)
           /\ \E k \in 1..Len(clients[c].queue) : ~clients[c].queue[k].critical)
          => LET q == clients[c].queue
                 q2 == clients'[c].queue
             IN  /\ \E k \in 1..Len(q) :
                       /\ ~q[k].critical
                       /\ \A j \in 1..(k - 1) : q[j].critical
                       /\ Len(q2) = Len(q)
                       /\ \A j \in 1..(k - 1) : q2[j] = q[j]
                       /\ \A j \in k..(Len(q) - 1) : q2[j] = q[j + 1]
                       /\ q2[Len(q)] = e
                 /\ clients'[c].dropped_non_critical
                        = clients[c].dropped_non_critical + 1
                 /\ wsOp'.path[c] = "evict_non_critical"]_vars

\* C2 witness: a critical event has evicted a non-critical event that was
\* queued behind a critical one.
C2_Witness ==
    /\ wsOp.op = "stream_event"
    /\ wsOp.event.critical
    /\ \E c \in Connected :
          /\ wsOp.path[c] = "evict_non_critical"
          /\ clients[c].queue[1].critical
          /\ clients[c].queue[Len(clients[c].queue)] = wsOp.event
          /\ clients[c].dropped_non_critical >= 1

\* C3: a non-critical event streamed to a subscribed client whose queue is
\* full is dropped: the client's state is unchanged but for
\* dropped_non_critical, which grows by exactly 1; and every flush sends the
\* frames of the queued events, oldest first, so a full flush after the drop
\* delivers exactly what was queued before it.
C3_NonCriticalDroppedWhenFull ==
    [][/\ \A c \in ClientIds, e \in {wsOp'.event} :
            (StreamsTo(c, e) /\ ~e.critical /\ QueueFull(c))
            => /\ clients'[c] = [clients[c] EXCEPT !.dropped_non_critical = @ + 1]
               /\ wsOp'.path[c] = "drop"
       /\ \A c \in Connected :
            (wsOp'.op = "flush" /\ wsOp'.client_id = c /\ clients' # clients)
            => LET q == clients[c].queue
                   sent == wsOp'.frames
               IN  /\ Len(sent) <= Len(q)
                   /\ \A k \in 1..Len(sent) : sent[k] = to_frame(q[k])
                   /\ clients'[c].queue = SubSeq(q, Len(sent) + 1, Len(q))
                   /\ wsOp'.max_messages = <<>> => Len(sent) = Len(q)]_vars

\* C3 witness: a non-critical event has just been dropped at a full queue.
C3_Witness ==
    /\ wsOp.op = "stream_event"
    /\ ~wsOp.event.critical
    /\ \E c \in Connected :
          /\ wsOp.path[c] = "drop"
          /\ Len(clients[c].queue) = max_queue_size
          /\ clients[c].dropped_non_critical >= 1

(***************************************************************************)
(* Part H: properties                                                      *)
(***************************************************************************)
Range(seq) == {seq[i] : i \in 1..Len(seq)}

\* The keys a ledger row can have: both ids present.
ValidKeys == {KeyOf(e) : e \in {x \in InboundEvents : ~MissingIds(x)}}

\* The submissions of a key whose upsert committed, in the order of commit.
CommitsOf(key) ==
    SelectSeq(handled, LAMBDA h : h.outcome = "ledger" /\ KeyOf(h.event) = key)

\* json is the canonical JSON text of payload: the same items, each once,
\* in ascending key order.
IsCanonicalJsonOf(json, payload) ==
    /\ Len(json) = Len(payload)
    /\ Range(json) = Range(payload)
    /\ \A i, j \in 1..Len(json) : i < j => json[i][1] < json[j][1]

\* The step is the commit of an upsert of `key`.
CommitStepOf(key) ==
    /\ Len(handled') = Len(handled) + 1
    /\ handled'[Len(handled')].outcome = "ledger"
    /\ KeyOf(handled'[Len(handled')].event) = key

\* C4: after n committed submits of one key with payloads p1..pn the ledger
\* holds one row for the key, with the canonical JSON of pn, attempt count n
\* and the first-seen time of the first submit, not later than last-seen; a
\* key without a committed submit has no row.
C4_IdempotentUpsert ==
    /\ DOMAIN event_ledger \subseteq ValidKeys
    /\ \A key \in ValidKeys :
          LET commits == CommitsOf(key)
              n == Len(commits)
          IN  IF n = 0 THEN key \notin DOMAIN event_ledger
              ELSE /\ key \in DOMAIN event_ledger
                   /\ IsCanonicalJsonOf(event_ledger[key].payload_json,
                                        commits[n].event.payload)
                   /\ event_ledger[key].ingest_attempt_count = n
                   /\ event_ledger[key].ingest_first_seen_at = commits[1].at
                   /\ event_ledger[key].ingest_last_seen_at = commits[n].at
                   /\ event_ledger[key].ingest_first_seen_at
                         <= event_ledger[key].ingest_last_seen_at

\* C4 witness: a key was committed twice, at different times, the second
\* payload being one whose items had to be sorted.
C4_Witness ==
    \E key \in DOMAIN event_ledger :
        LET commits == CommitsOf(key)
        IN  /\ Len(commits) >= 2
            /\ commits[1].event.payload # commits[Len(commits)].event.payload
            /\ event_ledger[key].payload_json # commits[Len(commits)].event.payload
            /\ event_ledger[key].ingest_attempt_count = Len(commits)
            /\ event_ledger[key].ingest_first_seen_at
                  < event_ledger[key].ingest_last_seen_at

\* C5: a dead_letter row keeps process_state, process_error and processed_at
\* through every later step of the writer, and a further ingest of its key
\* still replaces the payload, advances last-seen and counts the attempt.
C5_DeadLetterSticky ==
    [][\A key \in DOMAIN event_ledger :
          event_ledger[key].process_state = "dead_letter"
          => /\ key \in DOMAIN event_ledger'
             /\ event_ledger'[key].process_state = "dead_letter"
             /\ event_ledger'[key].process_error = event_ledger[key].process_error
             /\ event_ledger'[key].processed_at = event_ledger[key].processed_at
             /\ CommitStepOf(key)
                => LET h == handled'[Len(handled')]
                   IN  /\ IsCanonicalJsonOf(event_ledger'[key].payload_json,
                                            h.event.payload)
                       /\ event_ledger'[key].ingest_last_seen_at = h.at
                       /\ event_ledger'[key].ingest_attempt_count
                             = event_ledger[key].ingest_attempt_count + 1]_vars

\* C5 witness: a row that was made dead_letter and was ingested again later.
C5_Witness ==
    \E key \in DOMAIN event_ledger :
        /\ event_ledger[key].process_state = "dead_letter"
        /\ event_ledger[key].process_error = "handler failed"
        /\ event_ledger[key].ingest_attempt_count >= 2
        /\ event_ledger[key].processed_at # <<>>
        /\ event_ledger[key].processed_at[1] < event_ledger[key].ingest_last_seen_at

\* The poison rows that carry a source_event_id.
KeyedPoison == {p \in Range(ingest_poison_messages) : p.source_event_id # NoneVal}

\* C6 as stated: no key with a non-empty source_event_id has a row in both
\* event_ledger and ingest_poison_messages.
C6_PoisonSeparation ==
    \A p \in KeyedPoison :
        <<p.source_system, p.source_event_id>> \notin DOMAIN event_ledger

\* C6 amended: no submission is recorded in both tables, and a key with a
\* non-empty source_event_id has a row in both only when one submission of
\* it committed and another one exhausted its lock retries.
C6_PoisonSeparationPerSubmission ==
    \A p \in Range(ingest_poison_messages) :
        /\ \A h \in Range(handled) : h.sid = p.sid => h.outcome = "poison"
        /\ (p \in KeyedPoison
              /\ <<p.source_system, p.source_event_id>> \in DOMAIN event_ledger)
           => /\ p.reason = ReasonExhausted
              /\ \E h \in Range(handled) :
                    /\ h.outcome = "ledger"
                    /\ h.sid # p.sid
                    /\ KeyOf(h.event) = <<p.source_system, p.source_event_id>>

\* C6 witness: a key is in both tables, one submission of it committed and
\* a later one poisoned.
C6_Witness ==
    \E p \in KeyedPoison :
        /\ <<p.source_system, p.source_event_id>> \in DOMAIN event_ledger
        /\ p.reason = ReasonExhausted
        /\ \E h \in Range(handled) : h.outcome = "ledger" /\ h.sid < p.sid

\* The worker leaves the position it is at.
WorkerMoves == worker' # worker

WorkerGoesOn == worker_task' = "running" /\ worker'.pc = "get"

\* C7 as stated: an event whose upsert attempts all hit the lock has been
\* attempted lock_retry_limit + 1 times, then gets one poison record with
\* the "retries exhausted" reason and no ledger row, and the worker goes on
\* to the next item.
C7_ExhaustedRetriesArePoisoned ==
    [][(worker.pc = "poison" /\ worker.reason = ReasonExhausted /\ WorkerMoves)
          => /\ worker.attempt = lock_retry_limit + 1
             /\ ingest_poison_messages' =
                   Append(ingest_poison_messages,
                          PoisonRow(worker.event, worker.sid, ReasonExhausted))
             /\ event_ledger' = event_ledger
             /\ WorkerGoesOn]_vars

\* C8 as stated: an event with an empty source_system or source_event_id
\* gets one poison record with the "missing" reason, no upsert attempt and
\* no ledger row, and the worker goes on to the next item.
C8_MissingIdsArePoisoned ==
    [][(worker.pc = "poison" /\ worker.reason = ReasonMissing /\ WorkerMoves)
          => /\ MissingIds(worker.event)
             /\ worker.attempt = 0
             /\ ingest_poison_messages' =
                   Append(ingest_poison_messages,
                          PoisonRow(worker.event, worker.sid, ReasonMissing))
             /\ event_ledger' = event_ledger
             /\ WorkerGoesOn]_vars

\* The submissions waiting in the queue, oldest first.
QueuedSids ==
    LET events == SelectSeq(writer_queue, LAMBDA it : it.kind = "event")
    IN  [i \in 1..Len(events) |-> events[i].sid]

Increasing(sids) == \A i, j \in 1..Len(sids) : i < j => sids[i] < sids[j]

\* The worker holds an event it took from the queue and has not finished.
WorkerBusy == worker.pc \in {"attempt", "sleep", "poison"}

\* The committed submission of `key` that was enqueued last.
LastEnqueuedCommit(key) ==
    CHOOSE h \in Range(CommitsOf(key)) :
        \A other \in Range(CommitsOf(key)) : other.sid <= h.sid

\* Events are finished in the order they were enqueued, and the event in
\* hand is older than every queued one and newer than every finished one.
HandledInQueueOrder ==
    /\ Increasing([i \in 1..Len(handled) |-> handled[i].sid])
    /\ Increasing(QueuedSids)
    /\ WorkerBusy
       => /\ \A h \in Range(handled) : h.sid < worker.sid
          /\ \A sid \in Range(QueuedSids) : worker.sid < sid

LastWriterWins ==
    \A key \in DOMAIN event_ledger :
        IsCanonicalJsonOf(event_ledger[key].payload_json,
                          LastEnqueuedCommit(key).event.payload)

\* While an event is attempted or sleeps in backoff nothing is taken from
\* the queue, and whatever is written belongs to that event.
OneEventAtATime ==
    WorkerBusy
    => /\ Len(writer_queue') >= Len(writer_queue)
       /\ SubSeq(writer_queue', 1, Len(writer_queue)) = writer_queue
       /\ (event_ledger' # event_ledger
             \/ ingest_poison_messages' # ingest_poison_messages)
          => /\ Len(handled') = Len(handled) + 1
             /\ handled'[Len(handled')].sid = worker.sid

AttemptCountStrictlyIncreases ==
    \A key \in DOMAIN event_ledger :
        /\ key \in DOMAIN event_ledger'
        /\ event_ledger'[key].ingest_attempt_count
              >= event_ledger[key].ingest_attempt_count
        /\ CommitStepOf(key)
           => event_ledger'[key].ingest_attempt_count
                 > event_ledger[key].ingest_attempt_count

\* C9: the worker handles one event at a time in queue order; no other
\* event is taken or written while one is attempted or sleeps in backoff, so
\* a key's payload is that of its last-enqueued committed submit and its
\* ingest_attempt_count grows with every commit.
C9_SingleWriterFifo ==
    /\ [](HandledInQueueOrder /\ LastWriterWins)
    /\ [][OneEventAtATime /\ AttemptCountStrictlyIncreases]_vars

\* C9 witness: two submits of one key were committed, the later one after a
\* lock-retry backoff, while a further item waited in the queue.
C9_Witness ==
    \E key \in DOMAIN event_ledger :
        LET commits == CommitsOf(key)
        IN  /\ Len(commits) >= 2
            /\ commits[Len(commits)].attempts >= 2
            /\ commits[1].event.payload # commits[2].event.payload
            /\ event_ledger[key].ingest_attempt_count = 2
            /\ writer_queue # <<>>

\* The submissions whose submit() completed before stop() was called.
SubmittedBeforeStop == 1..stopper.mark

HandledSids == {h.sid : h \in Range(handled)}

\* C10: when stop() of a started writer returns, every event submitted
\* before the call has been written to event_ledger or to
\* ingest_poison_messages, the worker has exited and the connection is
\* closed.
C10_StopDrainsThenCloses ==
    (stopper.pc = "returned" /\ stopper.started)
    => /\ SubmittedBeforeStop \subseteq HandledSids
       /\ \A h \in Range(handled) :
             h.sid \in SubmittedBeforeStop
             => IF h.outcome = "ledger"
                THEN KeyOf(h.event) \in DOMAIN event_ledger
                ELSE \E p \in Range(ingest_poison_messages) : p.sid = h.sid
       /\ worker_task = NoneVal
       /\ worker = NoWorker
       /\ conn = NoneVal

\* C10 witness: stop() returned after two earlier submits, one of which
\* went to the ledger and one to the poison table.
C10_Witness ==
    /\ stopper.pc = "returned"
    /\ stopper.started
    /\ stopper.mark >= 2
    /\ \E h \in Range(handled) : h.outcome = "ledger"
    /\ \E h \in Range(handled) : h.outcome = "poison"
    /\ conn = NoneVal

(***************************************************************************)
(* Part C: properties                                                      *)
(***************************************************************************)
\* The acquires made on one bucket, in lock order.
CallsOn(bucket) == SelectSeq(rl_calls, LAMBDA c : c.bucket = bucket)

\* The call left a reservation in the bucket, at the time c.at.
IsReservation(c) == c.outcome \in {"reserved", "committed"}

CapacityOf(bucket) == capacity(requests_per_second(rl_config[1], bucket))

\* The reservations of a bucket whose timestamps lie in [t, t + 1s).
ReservationsInWindow(bucket, t) ==
    {i \in 1..Len(rl_calls) :
        /\ rl_calls[i].bucket = bucket
        /\ IsReservation(rl_calls[i])
        /\ t <= rl_calls[i].at
        /\ rl_calls[i].at < t + TicksPerSecond}

\* C11 as stated: for every interleaving of acquire and acquire_async, the
\* reservations of one bucket whose timestamps fall in any one-second
\* window never number more than the bucket's capacity.
C11_WindowWithinCapacity ==
    rl_config # <<>>
    => \A bucket \in RateLimitBucket, t \in 0..MaxNow :
          Cardinality(ReservationsInWindow(bucket, t)) <= CapacityOf(bucket)

ZeroTimeout == rl_config # <<>> /\ rl_config[1].wait_timeout_seconds = 0

\* Calls i..j on the bucket are a burst: the window is empty when call i
\* arrives and call j arrives less than a second after call i.
IsBurst(calls, i, j) ==
    /\ \A h \in 1..(i - 1) :
          IsReservation(calls[h]) => calls[i].at - calls[h].at >= TicksPerSecond
    /\ calls[j].at - calls[i].at < TicksPerSecond

\* With no waiting allowed, the first C calls of every burst reserve and
\* all further ones are dropped.
BurstAdmitsCapacity ==
    ZeroTimeout
    => /\ rl_metrics.throttled_requests = 0
       /\ \A bucket \in RateLimitBucket :
             requests_per_second(rl_config[1], bucket) > 0
             => LET calls == CallsOn(bucket)
                IN  \A i, j \in 1..Len(calls) :
                       (i <= j /\ IsBurst(calls, i, j))
                       => \A m \in i..j :
                             calls[m].outcome =
                                IF m - i + 1 <= CapacityOf(bucket)
                                THEN "reserved" ELSE "dropped"

\* A dropped call counts once in dropped_requests, leaves
\* throttled_requests alone and adds nothing to its bucket; a call that
\* reserves leaves both counters alone.
DropCountsOnce ==
    (ZeroTimeout /\ Len(rl_calls') = Len(rl_calls) + 1)
    => LET call == rl_calls'[Len(rl_calls')]
       IN  /\ rl_metrics'.throttled_requests = rl_metrics.throttled_requests
           /\ call.outcome = "dropped"
              => /\ rl_metrics'.dropped_requests = rl_metrics.dropped_requests + 1
                 /\ rl_events'[call.bucket]
                       = evict_old(rl_events[call.bucket], call.at)
           /\ call.outcome = "reserved"
              => /\ rl_metrics'.dropped_requests = rl_metrics.dropped_requests
                 /\ rl_events'[call.bucket]
                       = Append(evict_old(rl_events[call.bucket], call.at),
                                call.at)

\* C12: with wait_timeout_seconds = 0, of a burst of C + k acquires on a
\* bucket of capacity C within one second from an empty window exactly the
\* first C succeed and the other k fail; each failure adds one to
\* dropped_requests and no reservation, and throttled_requests stays.
C12_BurstDropsExcess ==
    /\ []BurstAdmitsCapacity
    /\ [][DropCountsOnce]_vars

\* C12 witness: a burst of four acquires on a bucket of capacity 2 at one
\* reading of the clock: two reserved, two dropped, dropped_requests = 2.
C12_Witness ==
    /\ ZeroTimeout
    /\ \E bucket \in RateLimitBucket :
          LET calls == CallsOn(bucket)
          IN  /\ CapacityOf(bucket) = 2
              /\ Len(calls) = 4
              /\ IsBurst(calls, 1, 4)
              /\ calls[2].outcome = "reserved"
              /\ calls[3].outcome = "dropped"
              /\ calls[4].outcome = "dropped"
              /\ rl_metrics.dropped_requests = 2
              /\ rl_metrics.throttled_requests = 0
              /\ Len(rl_events[bucket]) = 2

(***************************************************************************)
(* Part D: properties                                                      *)
(***************************************************************************)
Transient(code) == code \in {"network_error", "timeout", "rate_limited"}

\* What the claim says apart from the number of attempts: a further attempt
\* follows only a transient failure, any other failure is raised by the
\* attempt that produced it, and what is raised is the mapped error of the
\* last attempt.
RetriesOnlyTransient ==
    LET n == Len(http_attempts)
    IN  /\ n = http.attempts
        /\ \A i \in 1..n :
              /\ http_attempts[i].code =
                    (IF http_attempts[i].error = NoError THEN "ok"
                     ELSE map_kalshi_error(http_attempts[i].error))
              /\ i < n => Transient(http_attempts[i].code)
              /\ (http_attempts[i].code # "ok" /\ ~Transient(http_attempts[i].code))
                 => (i = n /\ http.pc = "raised")
        /\ http.pc = "raised"
           => /\ n >= 1
              /\ http_attempts[n].code # "ok"
              /\ http.raised = http_attempts[n].code
              /\ Transient(http.raised) => n >= http.max_attempts
        /\ http.pc = "sleep"
           => /\ n >= 1
              /\ Transient(http_attempts[n].code)
              /\ n < http.max_attempts
        /\ http.pc = "returned" => (n >= 1 /\ http_attempts[n].code = "ok")

\* C13 as stated: a call makes at most max_attempts attempts, tries again
\* only after a network_error, timeout or rate_limited failure, raises any
\* other failure at once, and raises the last attempt's mapped error when
\* the attempts run out.
C13_RetryBudget ==
    /\ Len(http_attempts) <= http.max_attempts
    /\ RetriesOnlyTransient

\* C13 amended: the same with at most max(1, max_attempts) attempts, the
\* first attempt being made whatever max_attempts is.
C13_RetryBudgetAtLeastOne ==
    /\ Len(http_attempts) <= Max(1, http.max_attempts)
    /\ Len(http_attempts) > 1 => Len(http_attempts) <= http.max_attempts
    /\ RetriesOnlyTransient

\* C13 witness: a call with max_attempts = 3 that failed with three
\* transient errors of different codes and raised the last one.
C13_Witness ==
    /\ http.pc = "raised"
    /\ http.max_attempts = 3
    /\ Len(http_attempts) = 3
    /\ http_attempts[1].code = "rate_limited"
    /\ http_attempts[2].code = "network_error"
    /\ http_attempts[3].code = "timeout"
    /\ http.raised = "timeout"

(***************************************************************************)
(* Part E: properties                                                      *)
(***************************************************************************)
\* The step resumes the generator at the yield `pc`.
ResumedAt(pc) == stream.pc = pc /\ stream' # stream

\* The step hands out exactly the envelope e.
Emits(e) == stream_envelopes' = Append(stream_envelopes, e)

EmitsNothing == stream_envelopes' = stream_envelopes

\* C14 as stated: whenever the disconnect notice is classified AUTH_FAILURE,
\* whatever the health state, the stream emits one health_state envelope
\* (degraded, auth_failure, attempt = consecutive_failures + 1), nothing
\* else, and terminates without reconnecting.
C14_AuthFailureOneShot ==
    [][/\ (ResumedAt("await_disconnect")
             /\ classify_stream_close(stream'.received) = "auth_failure")
          => /\ Emits(build_health_event("degraded", "auth_failure",
                                         stream.consecutive_failures + 1))
             /\ stream'.pc = "auth_health"
       /\ ResumedAt("auth_health")
          => (EmitsNothing /\ stream'.pc = "done")]_vars

\* The health_state envelopes so far alternate, the first being degraded,
\* and the last one tells the health state the generator holds.
HealthAlternates ==
    /\ \A i \in 1..Len(stream_health) :
          /\ stream_health[i].type = "health_state"
          /\ stream_health[i].state =
                (IF i % 2 = 1 THEN "degraded" ELSE "healthy")
    /\ stream.health_state =
          (IF stream_health = <<>> THEN "healthy"
           ELSE stream_health[Len(stream_health)].state)

\* The step hands out a health_state envelope.
EmitsHealth ==
    /\ stream_envelopes' # stream_envelopes
    /\ stream_envelopes'[Len(stream_envelopes')].type = "health_state"

\* A health envelope is handed out in exactly the steps that change the
\* health state, one per change, and it carries the new state.
HealthOnlyOnTransition ==
    /\ EmitsHealth <=> stream'.health_state # stream.health_state
    /\ EmitsHealth <=> stream_health' # stream_health
    /\ EmitsHealth
       => /\ stream_health' =
                Append(stream_health,
                       stream_envelopes'[Len(stream_envelopes')])
          /\ stream_envelopes'[Len(stream_envelopes')].state
                = stream'.health_state

\* C15: the health_state envelopes of every run alternate strictly,
\* starting with degraded: degraded only on a healthy-to-degraded
\* transition, healthy only on a degraded-to-healthy one, one per
\* transition.
C15_HealthEnvelopesAlternate ==
    /\ []HealthAlternates
    /\ [][HealthOnlyOnTransition]_vars

\* C15 witness: degraded, healthy and degraded again, with two disconnects
\* in a row while degraded in between.
C15_Witness ==
    /\ Len(stream_health) = 3
    /\ stream_health[1].reason = "repeated_disconnects"
    /\ stream_health[2].reason = "stable_connection_restored"
    /\ stream_health[3].state = "degraded"
    /\ stream.health_state = "degraded"

\* The loop goes back to Connecting: the connect envelope opens a new
\* session, unless the limiter refuses the acquire and its error is raised.
StartsNewSession ==
    \/ /\ stream'.pc = "connect"
       /\ stream'.sessions = stream.sessions + 1
       /\ stream_envelopes' = <<ConnectEnvelope>>
    \/ /\ stream'.pc = "raised"
       /\ EmitsNothing

CountersReset ==
    /\ stream'.consecutive_failures = 0
    /\ stream'.retry_started_at = <<>>

CountersKept ==
    /\ stream'.consecutive_failures = stream.consecutive_failures
    /\ stream'.retry_started_at = stream.retry_started_at

RehydrateReturned == rehydrator.pc = "done" /\ rehydrator.raised = NoneVal

\* The step commits the with block of a run.
RehydrateCommits == rehydrator.pc = "fetched" /\ rehydrator'.pc = "committed"

\* The row carries the payload: its canonical text and that text's digest.
CarriesPayload(row, payload) ==
    /\ IsCanonicalJsonOf(row.payload_json, payload)
    /\ row.payload_sha256 = sha256(row.payload_json)

OpenOrderIds == {id \in DOMAIN state_orders : state_orders[id].state = "open"}

\* The open rows are the remote open orders, the position rows the remote
\* positions, each with the remote payload and its hash.
MirrorsRemote ==
    /\ OpenOrderIds = DOMAIN rehydrator.open_orders
    /\ \A id \in DOMAIN rehydrator.open_orders :
           CarriesPayload(state_orders[id], rehydrator.open_orders[id])
    /\ DOMAIN state_positions = DOMAIN rehydrator.positions
    /\ \A key \in DOMAIN rehydrator.positions :
           CarriesPayload(state_positions[key], rehydrator.positions[key])

\* The committing step closes every order row the remote snapshot lacks
\* and deletes none.
ClosesLocalOnly ==
    RehydrateCommits =>
        \A id \in DOMAIN state_orders :
            /\ id \in DOMAIN state_orders'
            /\ id \notin DOMAIN rehydrator.open_orders
                   => state_orders'[id].state = "closed"

\* C17: after a boot_rehydrate that returns successfully the state_orders
\* rows in state open are exactly the remote open orders, each with the
\* remote payload and hash; orders known only locally are closed and none
\* is deleted; the state_positions keys are exactly the remote position
\* keys market_id[:side].
C17_RehydrateMirrorsRemote ==
    /\ [](rehydrator.pc = "committed" \/ RehydrateReturned => MirrorsRemote)
    /\ [][ClosesLocalOnly]_vars

\* A run has returned with an open remote order, a closed local-only order
\* and a position keyed market_id:side.
C17_Witness ==
    /\ RehydrateReturned
    /\ "o-2" \in OpenOrderIds
    /\ "o-1" \in DOMAIN state_orders
    /\ state_orders["o-1"].state = "closed"
    /\ "MKT:no" \in DOMAIN state_positions

\* The run row of the call in progress.
RunRows(runs, boot_id) ==
    {i \in 1..Len(runs) : runs[i].boot_id = boot_id}

\* The ledger rows written for a boot id.
LedgerRowsOf(boot_id) ==
    {i \in 1..Len(reconciliation_event_ledger) :
        reconciliation_event_ledger[i].source_event_id[2] = boot_id}

\* The committing step adds as many ledger rows as the run row it writes
\* counts, and changes no earlier row.
CommitCountsInsertedRows ==
    RehydrateCommits =>
        /\ SubSeq(reconciliation_event_ledger', 1,
                  Len(reconciliation_event_ledger))
               = reconciliation_event_ledger
        /\ \E i \in RunRows(rehydration_runs', rehydrator.boot_id) :
               /\ rehydration_runs'[i].status = "completed"
               /\ rehydration_runs'[i].drift_count
                      = Len(reconciliation_event_ledger')
                            - Len(reconciliation_event_ledger)

\* Every completed run row counts the ledger rows of its boot id, and no
\* two ledger rows share a source_event_id.
DriftCountMatchesLedger ==
    /\ \A i \in 1..Len(rehydration_runs) :
           rehydration_runs[i].status = "completed" =>
               rehydration_runs[i].drift_count
                   = Cardinality(LedgerRowsOf(rehydration_runs[i].boot_id))
    /\ \A i, j \in 1..Len(reconciliation_event_ledger) :
           reconciliation_event_ledger[i].source_event_id
               = reconciliation_event_ledger[j].source_event_id => i = j

\* C18: the drift_count recorded in rehydration_runs for a completed run
\* equals the number of rows that run inserted into
\* reconciliation_event_ledger; no two drift records of one run share a
\* source_event_id.
C18_DriftCountIsRowsInserted ==
    /\ []DriftCountMatchesLedger
    /\ [][CommitCountsInsertedRows]_vars

\* Two runs have completed with drift, one of them with several records
\* for orders and positions.
C18_Witness ==
    \E i, j \in 1..Len(rehydration_runs) :
        /\ i # j
        /\ rehydration_runs[i].status = "completed"
        /\ rehydration_runs[j].status = "completed"
        /\ rehydration_runs[i].drift_count >= 4
        /\ rehydration_runs[j].drift_count >= 2

\* boot_rehydrate has ended by raising.
RehydrateRaised == rehydrator.pc = "done" /\ rehydrator.raised # NoneVal

\* The failed run is on record with its error.
FailedRunRecorded ==
    \E i \in RunRows(rehydration_runs, rehydrator.boot_id) :
        /\ rehydration_runs[i].status = "failed"
        /\ rehydration_runs[i].error = rehydrator.exc

\* From the failure to the raise no state table and no drift row changes.
FailurePersistsNothing ==
    rehydrator'.pc = "failed" \/ rehydrator.pc = "failed" =>
        UNCHANGED <<state_orders, state_positions,
                    reconciliation_event_ledger>>

\* C19: when any step of boot_rehydrate fails (snapshot fetch,
\* reconciliation, drift insert or run record) a rehydration_runs row with
\* status failed and the error is recorded, the gate stays not ready,
\* RehydrationError is raised and no state table or drift row changes.
C19_FailureIsRecordedAndRaised ==
    /\ [](RehydrateRaised =>
              /\ FailedRunRecorded
              /\ ~readiness_gate.ready
              /\ rehydrator.raised = "RehydrationError")
    /\ [][FailurePersistsNothing]_vars

\* The run row of the most recent boot_rehydrate call is a committed
\* completed row.
LastRunCompleted ==
    \E i \in RunRows(rehydration_runs, rehydrator.boot_id) :
        rehydration_runs[i].status = "completed"

\* The gate is ready only after the most recent call returned, its
\* completed row committed; from the start of a call to that point, and
\* before any call, it is not ready.
ReadyOnlyAfterCompletedRun ==
    /\ readiness_gate.ready => RehydrateReturned /\ LastRunCompleted
    /\ rehydrator.pc # "done" => ~readiness_gate.ready

\* An assert_ready call raises exactly when the gate is not ready.
AssertRaisesIffNotReady ==
    rh_asserted' # rh_asserted =>
        /\ rh_asserted'.outcome = "RehydrationError" <=> ~readiness_gate.ready
        /\ rh_asserted'.outcome = "returned" <=> readiness_gate.ready

\* C20: the readiness gate is ready only when the most recent
\* boot_rehydrate completed successfully; it is not ready from the start
\* of a run (a re-run after an earlier success included) until that run's
\* completed row is committed; assert_ready raises exactly when the gate
\* is not ready.
C20_ReadyOnlyAfterSuccess ==
    /\ []ReadyOnlyAfterCompletedRun
    /\ [][AssertRaisesIffNotReady]_vars

\* A re-run is in progress after an earlier success: the gate is closed
\* again and assert_ready has raised.
C20_Witness ==
    /\ rehydrator.pc \in {"started", "fetched", "committed"}
    /\ \E i \in 1..Len(rehydration_runs) :
           /\ rehydration_runs[i].status = "completed"
           /\ rehydration_runs[i].boot_id # rehydrator.boot_id
    /\ readiness_gate.last_rehydrated_at # <<>>
    /\ ~readiness_gate.ready
    /\ rh_asserted.outcome = "RehydrationError"

(***************************************************************************)
(* Part K: properties                                                      *)
(***************************************************************************)

\* The startup stages in the order claimed.
StartOrder ==
    <<"config", "db", "connectors", "rate_limiter", "rest_service",
      "websocket_service", "boot_rehydrate", "healthcheck",
      "rest_service.start", "websocket_service.start", "consumer_starter",
      "route_starter">>

StageRank(stage) == CHOOSE i \in 1..Len(StartOrder) : StartOrder[i] = stage

IsStage(event) == \E i \in 1..Len(StartOrder) : StartOrder[i] = event

\* The stages start() has invoked so far, in order.
StartEvents == SelectSeq(root_events, IsStage)

\* The stage follows its predecessor in the claimed order: the next stage,
\* another health check, or past the health checks when there are none.
FollowsInOrder(before, after) ==
    \/ StageRank(after) = StageRank(before) + 1
    \/ before = "healthcheck" /\ after = "healthcheck"
    \/ /\ root.checks = 0
       /\ before = "boot_rehydrate"
       /\ after = "rest_service.start"

\* start() runs the stages in the claimed order, from the first one on,
\* and when it has returned every stage has run: once, and each health
\* check once.
StagesInOrder ==
    /\ StartEvents # <<>> => StartEvents[1] = "config"
    /\ \A i \in 1..(Len(StartEvents) - 1) :
           FollowsInOrder(StartEvents[i], StartEvents[i + 1])
    /\ root.pc = "returned" =>
           /\ StartEvents[Len(StartEvents)] = "route_starter"
           /\ Len(StartEvents) = Len(StartOrder) - 1 + root.checks

\* tauri_ready and ui_ready are set only with route_starter returned.
ReadyOnlyAfterRoutes ==
    lifecycle.tauri_ready \/ lifecycle.ui_ready =>
        /\ root.pc = "returned"
        /\ StartEvents[Len(StartEvents)] = "route_starter"

\* C21: start() executes its stages in the order config, db, connectors,
\* rate_limiter, rest_service built, websocket_service built,
\* boot_rehydrate, dependency health checks, rest_service.start,
\* websocket_service.start, consumer_starter, route_starter; tauri_ready
\* and ui_ready become true only after route_starter has returned.
C21_StartupStagesInOrder == StagesInOrder /\ ReadyOnlyAfterRoutes

\* A start() with two health checks has returned and both flags are set.
C21_Witness ==
    /\ root.pc = "returned"
    /\ root.checks = 2
    /\ root.down = "none"
    /\ lifecycle.tauri_ready
    /\ lifecycle.ui_ready

\* start() has ended by raising.
StartRaised == root.pc = "raised"

\* The failed start() is on record: the message is the last error and the
\* exception of the caller, both flags are false, and no stage after the
\* failed one was invoked.
FailedStartRecorded ==
    StartRaised =>
        /\ root.raised # NoneVal
        /\ lifecycle.last_error = root.raised
        /\ ~lifecycle.tauri_ready /\ ~lifecycle.ui_ready
        /\ StartEvents[Len(StartEvents)] = root.failed_stage
        /\ \A i \in 1..Len(StartEvents) :
               StageRank(StartEvents[i]) <= StageRank(root.failed_stage)

\* The failing step publishes the state once, with the error in it; a
\* start() that has raised invokes no further stage.
FailurePublishesOnce ==
    /\ ~StartRaised /\ root'.pc = "raised" =>
           /\ published' = Append(published, lifecycle')
           /\ lifecycle'.last_error = root'.raised
    /\ StartRaised => StartEvents' = StartEvents

\* C22: if a startup stage raises, or a dependency health check returns
\* false, no later stage is executed, last_error is the error message,
\* tauri_ready and ui_ready are false, the state is published once more
\* and the exception propagates to the caller of start().
C22_StartupFailureAborts ==
    /\ []FailedStartRecorded
    /\ [][FailurePublishesOnce]_vars

\* A health check answered false after rehydration: start() raised with
\* the health check message and no service was started.
C22_Witness ==
    /\ StartRaised
    /\ root.failed_stage = "healthcheck"
    /\ lifecycle.last_error = "required dependency healthcheck failed"
    /\ lifecycle.rehydrated
    /\ \A i \in 1..Len(root_events) : root_events[i] # "rest_service.start"
    /\ published[Len(published)] = lifecycle

\* boot_rehydrate has returned to start().
RehydrationStageReturned ==
    /\ \E i \in 1..Len(StartEvents) : StartEvents[i] = "boot_rehydrate"
    /\ root.pc # "boot_rehydrate"
    /\ root.failed_stage # "boot_rehydrate"

\* C23: strategy_enabled and execution_enabled are false until
\* boot_rehydrate has returned successfully in start(): either of them
\* being true implies rehydrated, and a failure at or before the
\* rehydration stage leaves both false.
C23_EnabledOnlyAfterRehydration ==
    /\ lifecycle.strategy_enabled \/ lifecycle.execution_enabled =>
           lifecycle.rehydrated /\ RehydrationStageReturned
    /\ /\ StartRaised
       /\ StageRank(root.failed_stage) <= StageRank("boot_rehydrate")
       => ~lifecycle.strategy_enabled /\ ~lifecycle.execution_enabled

\* boot_rehydrate raised after both services were built: nothing is
\* enabled.
C23_Witness ==
    /\ StartRaised
    /\ root.failed_stage = "boot_rehydrate"
    /\ lifecycle.websocket_ready
    /\ ~lifecycle.strategy_enabled
    /\ ~lifecycle.execution_enabled
    /\ ~lifecycle.rehydrated

\* The shutdown hooks in the order claimed, each with the resolved object
\* it belongs to and the phase published before it.
HookOrder ==
    <<"connectors.stop_intake", "db.flush_queue", "connectors.close",
      "db.close", "websocket_service.stop", "rest_service.stop">>

HookTarget ==
    <<"connectors", "db", "connectors", "db", "websocket_service",
      "rest_service">>

HookPhase ==
    <<"stop_intake", "flush_queue", "close_connectors", "close_db",
      "close_db", "close_db">>

PhaseOrder ==
    <<"stop_intake", "flush_queue", "close_connectors", "close_db",
      "stopped">>

IsHook(event) == \E i \in 1..Len(HookOrder) : HookOrder[i] = event

HookRank(hook) == CHOOSE i \in 1..Len(HookOrder) : HookOrder[i] = hook

\* The hooks shutdown() has invoked so far, in order.
ShutdownEvents == SelectSeq(root_events, IsHook)

\* The shutdown phases published so far, in order.
PublishedPhases ==
    [i \in 1..Len(SelectSeq(published,
                            LAMBDA st : st.shutdown_phase # "running")) |->
        SelectSeq(published,
                  LAMBDA st : st.shutdown_phase # "running")[i].shutdown_phase]

IsPrefix(s, t) == Len(s) <= Len(t) /\ s = SubSeq(t, 1, Len(s))

\* shutdown() has returned.
ShutdownReturned == root.down = "done"

\* Hooks in the claimed order, each at most once, only on a resolved target
\* that offers it and after its phase was published; phases in the claimed
\* order; once shutdown() has returned every offered hook was invoked, the
\* phase is stopped and both flags are false.
ShutdownInOrder ==
    /\ \A i, j \in 1..Len(ShutdownEvents) :
           i < j => HookRank(ShutdownEvents[i]) < HookRank(ShutdownEvents[j])
    /\ \A i \in 1..Len(ShutdownEvents) :
           LET h == HookRank(ShutdownEvents[i])
           IN  /\ HookTarget[h] \in resolved
               /\ HookOrder[h] \in root.supports
               /\ \E k \in 1..Len(PublishedPhases) :
                      PublishedPhases[k] = HookPhase[h]
               /\ \A k \in 1..Len(PublishedPhases) :
                      PublishedPhases[k] # "stopped"
                          \/ root.down = "done"
    /\ IsPrefix(PublishedPhases, PhaseOrder)
    /\ Len(PublishedPhases) > 0 =>
           lifecycle.shutdown_phase = PublishedPhases[Len(PublishedPhases)]
    /\ ShutdownReturned =>
           /\ PublishedPhases = PhaseOrder
           /\ \A h \in 1..Len(HookOrder) :
                  HookTarget[h] \in resolved /\ HookOrder[h] \in root.supports
                      => \E i \in 1..Len(ShutdownEvents) :
                             ShutdownEvents[i] = HookOrder[h]
           /\ lifecycle.shutdown_phase = "stopped"
           /\ ~lifecycle.tauri_ready /\ ~lifecycle.ui_ready

\* C24: shutdown() invokes the hooks in the order connectors.stop_intake,
\* db.flush_queue, connectors.close, db.close, websocket_service.stop,
\* rest_service.stop, skipping a hook whose target is absent or does not
\* offer it; the published shutdown_phase goes through stop_intake,
\* flush_queue, close_connectors, close_db and finally stopped; in the
\* stopped state tauri_ready and ui_ready are false.
C24_ShutdownHooksInOrder == ShutdownInOrder

\* shutdown() has returned after a start() that had set both flags, with
\* one hook skipped because its target does not offer it.
C24_Witness ==
    /\ ShutdownReturned
    /\ root.pc = "returned"
    /\ Len(ShutdownEvents) = 4
    /\ "websocket_service.stop" \notin root.supports
    /\ lifecycle.routes_ready
    /\ ~lifecycle.tauri_ready

(***************************************************************************)
(* Part A: properties                                                      *)
(***************************************************************************)

\* The step is a validate call.
ValidateCalled == guard_result' # guard_result

\* The last nonce stored for the trusted token, <<>> when there is none.
LastNonce(g) ==
    IF g.expected_token \in DOMAIN g.last_nonce_by_token
    THEN <<g.last_nonce_by_token[g.expected_token]>>
    ELSE <<>>

\* The accepted nonces increase strictly, and the stored nonce is the last
\* accepted one; no other token is ever stored.
AcceptedNoncesIncrease ==
    /\ \A i, j \in 1..Len(guard_accepted) :
           i < j => guard_accepted[i] < guard_accepted[j]
    /\ LastNonce(guard) =
           IF guard_accepted = <<>> THEN <<>>
           ELSE <<guard_accepted[Len(guard_accepted)]>>
    /\ DOMAIN guard.last_nonce_by_token \subseteq {guard.expected_token}

\* A call with the trusted token and an integer nonce not above the last
\* accepted one is rejected as replayed_nonce; an accepted call carries
\* the trusted token; a rejected call changes nothing in the guard.
ReplayRejected ==
    ValidateCalled =>
        LET headers == guard_result'.headers
            parsed == ParseInt(headers.nonce)
        IN  /\ /\ headers.token = guard.expected_token
               /\ parsed # <<>>
               /\ LastNonce(guard) # <<>>
               /\ parsed[1] <= LastNonce(guard)[1]
               => guard_result'.reason = "replayed_nonce"
            /\ guard_result'.reason = NoneVal =>
                   /\ headers.token = guard.expected_token
                   /\ guard_accepted' = Append(guard_accepted, parsed[1])
            /\ guard_result'.reason # NoneVal =>
                   /\ guard' = guard
                   /\ guard_accepted' = guard_accepted
                   /\ guard_result'.reason \in
                          {"invalid_token", "missing_nonce", "invalid_nonce",
                           "replayed_nonce"}

\* C25: over any sequence of validate calls on one AuthNonceGuard the
\* nonces of the accepted calls for the trusted token are strictly
\* increasing: a call whose nonce is less than or equal to the last
\* accepted nonce is rejected as replayed_nonce, and a rejected call (wrong
\* token, missing, non-integer or replayed nonce) leaves the stored last
\* nonce unchanged.
C25_AcceptedNoncesStrictlyIncrease ==
    /\ []AcceptedNoncesIncrease
    /\ [][ReplayRejected]_vars

\* Three calls were accepted and the last call replayed the latest nonce.
C25_Witness ==
    /\ Len(guard_accepted) >= 3
    /\ guard_result.reason = "replayed_nonce"
    /\ ParseInt(guard_result.headers.nonce)
           = <<guard_accepted[Len(guard_accepted)]>>

(***************************************************************************)
(* C26: heartbeat pings the clients that are due, and only touches their   *)
(* last_ping_at.                                                           *)
(***************************************************************************)
\* The clients whose last ping is at least heartbeat_interval before `at`.
DueAt(at) ==
    {c \in Connected : at - clients[c].last_ping_at >= heartbeat_interval}

\* Everything of a client state but last_ping_at.
ButLastPing(state) == [state EXCEPT !.last_ping_at = 0]

HeartbeatStep ==
    wsOp'.op = "heartbeat" =>
        LET at == wsOp'.at
        IN  /\ wsOp'.pinged = DueAt(at)
            /\ DOMAIN clients' = Connected
            /\ \A c \in Connected :
                  /\ clients'[c].last_ping_at =
                        IF c \in DueAt(at) THEN at ELSE clients[c].last_ping_at
                  /\ clients'[c].queue = clients[c].queue
                  /\ clients'[c].subscriptions = clients[c].subscriptions
                  /\ clients'[c].last_seen_at = clients[c].last_seen_at
                  /\ ButLastPing(clients'[c]) = ButLastPing(clients[c])

\* C26: heartbeat(at) pings exactly the clients whose last ping is at least
\* heartbeat_interval before `at`, returns exactly their ids and sets their
\* last_ping_at to `at`; it leaves the last_ping_at of every other client
\* and the queue, subscriptions and last_seen_at of every client unchanged.
C26_HeartbeatPingsDueClients == [][HeartbeatStep]_vars

\* A heartbeat that pinged one of two connected clients while events were
\* queued.
C26_Witness ==
    /\ wsOp.op = "heartbeat"
    /\ Connected = ClientIds
    /\ wsOp.pinged = {"c1"}
    /\ clients["c1"].last_ping_at = wsOp.at
    /\ clients["c2"].last_ping_at # wsOp.at
    /\ clients["c1"].queue # <<>>
    /\ clients["c2"].queue # <<>>
    /\ clients["c1"].last_seen_at # clients["c1"].connected_at



(***************************************************************************)
(* C27: dropped_non_critical of a registered client id.                    *)
(***************************************************************************)
\* The counter get_client_stats reports does not go down for a client id
\* that is registered before and after the call.
DroppedDoesNotDecrease(c) ==
    (c \in Connected /\ c \in DOMAIN clients') =>
        get_client_stats(c)'.dropped_non_critical
            >= get_client_stats(c).dropped_non_critical

\* C27: for every client id, dropped_non_critical as reported by
\* get_client_stats never decreases across connect, subscribe, unsubscribe,
\* stream_event, flush and heartbeat calls made while the id is registered.
C27_DroppedNeverDecreases ==
    [][\A c \in ClientIds : DroppedDoesNotDecrease(c)]_vars

\* The same with the connect calls left out: every other call keeps or
\* raises the counter.
DroppedNeverDecreasesButConnect ==
    [][wsOp'.op # "connect" => \A c \in ClientIds : DroppedDoesNotDecrease(c)]_vars



(***************************************************************************)
(* C28: what a client is sent is, in order, part of what it was offered.   *)
(***************************************************************************)
RECURSIVE IsSubsequence(_, _)
\* The elements of `part` occur in `whole` in the same order, each at a
\* place of its own.
IsSubsequence(part, whole) ==
    IF part = <<>> THEN TRUE
    ELSE IF whole = <<>> THEN FALSE
    ELSE IF Head(part) = Head(whole)
         THEN IsSubsequence(Tail(part), Tail(whole))
         ELSE IsSubsequence(part, Tail(whole))

NoDuplicates(seq) ==
    \A i, j \in 1..Len(seq) : i # j => seq[i] # seq[j]

\* The frames of the events a client was offered, in the order of the
\* stream_event calls.
OfferedFrames(c) ==
    [k \in 1..Len(ws_offered[c]) |-> to_frame(ws_offered[c][k])]

SentFramesFollowOffered ==
    \A c \in ClientIds :
        /\ IsSubsequence(ws_sent[c], OfferedFrames(c))
        /\ NoDuplicates(ws_sent[c])

\* A flush sends the first min(max, queue length) queued events and leaves
\* the rest queued in order.
FlushSendsHead ==
    wsOp'.op = "flush" =>
        LET c == wsOp'.client_id
            q == clients[c].queue
            m == wsOp'.max_messages
            least == IF m = <<>> THEN Len(q) ELSE Min(m[1], Len(q))
            n == IF least < 0 THEN 0 ELSE least
        IN  /\ wsOp'.frames = [k \in 1..n |-> to_frame(q[k])]
            /\ clients'[c].queue = [k \in 1..(Len(q) - n) |-> q[n + k]]

\* C28: for each client the frames sent by its successive flush calls form,
\* taken together, a subsequence (same order, no duplicates) of the events
\* passed to stream_event while their topic was in the client's
\* subscription; flush(max) sends the first min(max, queue length) queued
\* events from the head and leaves the rest queued in order.
C28_FlushesSendOfferedEventsInOrder ==
    []SentFramesFollowOffered /\ [][FlushSendsHead]_vars

\* A flush of one frame that left an event queued, for a client that was
\* offered three events and lost the first of them to backpressure.
C28_Witness ==
    /\ wsOp.op = "flush"
    /\ wsOp.max_messages = <<1>>
    /\ Len(wsOp.frames) = 1
    /\ clients["c1"].queue # <<>>
    /\ Len(ws_offered["c1"]) = 3
    /\ ws_sent["c1"] = <<to_frame(ws_offered["c1"][2])>>



(***************************************************************************)
(* C29: a critical event meeting a full queue of critical events.          *)
(***************************************************************************)
\* Client c is subscribed to the topic of e and its queue is full of
\* critical events.
FullOfCritical(c, e) ==
    /\ c \in Connected
    /\ e.topic \in clients[c].subscriptions
    /\ Len(clients[c].queue) = max_queue_size
    /\ \A k \in 1..Len(clients[c].queue) : clients[c].queue[k].critical

\* C29: when a critical event is streamed to a subscribed client whose queue
\* is full and holds only critical events, the head of the queue is dropped
\* and the new event appended at the tail: the length stays max_queue_size
\* and the remaining events keep their order.
C29_CriticalEvictsHeadWhenAllCritical ==
    [][\A c \in ClientIds, e \in {wsOp'.event} :
          (wsOp'.op = "stream_event" /\ e.critical /\ FullOfCritical(c, e)) =>
              LET q == clients[c].queue
                  after == clients'[c].queue
              IN  /\ Len(after) = max_queue_size
                  /\ after[Len(after)] = e
                  /\ \A k \in 1..(Len(q) - 1) : after[k] = q[k + 1]]_vars

\* A critical event has pushed the head out of a full queue of critical
\* events that were not all the same.
C29_Witness ==
    /\ wsOp.op = "stream_event"
    /\ wsOp.event.critical
    /\ \E c \in Connected :
          /\ wsOp.path[c] = "evict_head"
          /\ Len(clients[c].queue) = max_queue_size
          /\ clients[c].queue[1] # clients[c].queue[2]
          /\ clients[c].queue[Len(clients[c].queue)] = wsOp.event
          /\ clients[c].dropped_non_critical = 0



(***************************************************************************)
(* C30: the envelopes of a stream session.                                 *)
(***************************************************************************)
RECURSIVE SubscribesFor(_)
\* One subscribe envelope for every requested channel that is supported, in
\* the order of the request.
SubscribesFor(requested) ==
    IF requested = <<>> THEN <<>>
    ELSE IF Head(requested) \in {"orderbook_delta", "trade"}
         THEN <<SubscribeEnvelope(Head(requested))>>
                  \o SubscribesFor(Tail(requested))
         ELSE SubscribesFor(Tail(requested))

\* What a session yields up to its await_disconnect.
SessionOpening(requested) ==
    <<ConnectEnvelope>> \o SubscribesFor(requested)
        \o <<AwaitDisconnectEnvelope>>

OpeningTypes == {"connect", "subscribe", "await_disconnect"}

\* The envelopes of the current session start as SessionOpening says, as
\* far as the session has come, and no connect, subscribe or
\* await_disconnect envelope follows the opening.
SessionFollowsOpening ==
    stream.sessions > 0 =>
        LET opening == SessionOpening(stream.requested)
        IN  /\ \A k \in 1..Len(stream_envelopes) :
                  IF k <= Len(opening)
                  THEN stream_envelopes[k] = opening[k]
                  ELSE stream_envelopes[k].type \notin OpeningTypes
            /\ Len(stream_envelopes) >= 1

\* The opening is complete once the generator is past the subscribe loop;
\* only the limiter's error, raised from an acquire, cuts a session short.
SessionOpeningCompletes ==
    (stream.sessions > 0 /\ stream.pc \notin {"connect", "subscribe", "raised"})
        => Len(stream_envelopes) >= Len(SessionOpening(stream.requested))

TransientDisconnect ==
    /\ stream.pc = "await_disconnect"
    /\ stream'.pc # "await_disconnect"
    /\ classify_stream_close(stream'.received) = "transient_failure"

\* now - connect_started_at at the disconnect.
Uptime == stream_now - stream.connect_started_at

\* The disconnect is counted and the retry window started if unset.
CountedAsFailure ==
    /\ stream'.consecutive_failures = stream.consecutive_failures + 1
    /\ stream'.retry_started_at =
          IF stream.retry_started_at = <<>> THEN <<stream_now>>
          ELSE stream.retry_started_at

\* C31: on a TRANSIENT disconnect whose uptime is at least
\* stable_connect_seconds the counters are reset (consecutive_failures 0,
\* retry window start nil) and the disconnect is not counted; it is counted
\* (and the window started if unset) only when the uptime is below
\* stable_connect_seconds.
C31_StableUptimeIsNotCounted ==
    [][TransientDisconnect =>
          IF Uptime >= stable_connect_seconds
          THEN /\ stream'.consecutive_failures = 0
               /\ stream'.retry_started_at = <<>>
          ELSE CountedAsFailure]_vars

\* C31 as the code has it: on a TRANSIENT disconnect whose uptime is at
\* least stable_connect_seconds the counters are reset and then the
\* disconnect is counted as the first failure of a new retry window
\* (consecutive_failures 1, window start now); below stable_connect_seconds
\* the disconnect is added to the count and the window started if unset.
C31_StableUptimeRestartsCount ==
    [][TransientDisconnect =>
          IF Uptime >= stable_connect_seconds
          THEN /\ stream'.consecutive_failures = 1
               /\ stream'.retry_started_at = <<stream_now>>
          ELSE CountedAsFailure]_vars

\* A transient disconnect of a reconnected session that was up for at least
\* stable_connect_seconds, while the retry window of an earlier failure was
\* open: it is failure 1 of a window that starts now.
C31_Witness ==
    /\ stream.pc = "reconnect_scheduled"
    /\ stream.sessions >= 2
    /\ stream.health_state = "degraded"
    /\ stream_now - stream.connect_started_at >= stable_connect_seconds
    /\ stream.consecutive_failures = 1
    /\ stream.retry_started_at = <<stream_now>>



(***************************************************************************)
(* C32: the retry window running out.                                      *)
(***************************************************************************)
\* The start of the retry window the disconnect is measured against: now
\* after a stable session or when no window is open.
WindowStart ==
    IF Uptime >= stable_connect_seconds \/ stream.retry_started_at = <<>>
    THEN stream_now
    ELSE stream.retry_started_at[1]

WindowExceeded == stream_now - WindowStart > max_retry_window_seconds

\* The envelope handed out by the step is the degraded health envelope of
\* an exhausted retry window.
EmitsWindowReached ==
    /\ Len(stream_envelopes') = Len(stream_envelopes) + 1
    /\ LET e == stream_envelopes'[Len(stream_envelopes')]
       IN  /\ e.type = "health_state"
           /\ e.state = "degraded"
           /\ e.reason = "max_retry_window_reached"

\* After the envelope of an exhausted window the generator only returns.
WindowReachedIsLast ==
    stream.pc = "window_health" =>
        /\ stream'.pc \in {"window_health", "done"}
        /\ stream_envelopes' = stream_envelopes

\* C32: on a TRANSIENT disconnect for which now - retry_window_started
\* exceeds max_retry_window_seconds the stream emits a health_state
\* envelope (degraded, max_retry_window_reached) and then terminates with no
\* reconnect_scheduled, sleep or connect envelope; also when health was
\* already degraded by earlier repeated disconnects.
C32_WindowExhaustedEmitsDegraded ==
    [][/\ (TransientDisconnect /\ WindowExceeded) => EmitsWindowReached
       /\ WindowReachedIsLast]_vars

\* What holds in every case: the generator ends without a reconnect, and
\* the envelope is emitted exactly when health was not yet degraded.
WindowExhaustedEndsStream ==
    [][/\ (TransientDisconnect /\ WindowExceeded) =>
              IF stream.health_state # "degraded"
              THEN EmitsWindowReached /\ stream'.pc = "window_health"
              ELSE stream_envelopes' = stream_envelopes /\ stream'.pc = "done"
       /\ WindowReachedIsLast]_vars



(***************************************************************************)
(* C33: a transient disconnect inside the retry window.                    *)
(***************************************************************************)
\* The generator is resumed where it was suspended at `pc`.
ResumedFrom(pc) == stream.pc = pc /\ stream'.pc # pc

LastEnvelope(envelopes) == envelopes[Len(envelopes)]

\* From the disconnect to the sleep envelope: reconnect_scheduled (after
\* the repeated_disconnects envelope, when that is due) with attempt >= 1
\* and close_type transient_failure, then sleep with the same backoff.
ReconnectIsScheduled ==
    /\ (TransientDisconnect /\ ~WindowExceeded) =>
          stream'.pc \in {"degraded_health", "reconnect_scheduled"}
    /\ ResumedFrom("degraded_health") => stream'.pc = "reconnect_scheduled"
    /\ (stream'.pc = "reconnect_scheduled" /\ stream.pc # "reconnect_scheduled") =>
          /\ Len(stream_envelopes') = Len(stream_envelopes) + 1
          /\ LastEnvelope(stream_envelopes').type = "reconnect_scheduled"
          /\ LastEnvelope(stream_envelopes').attempt >= 1
          /\ LastEnvelope(stream_envelopes').reason = "transient_failure"
    /\ ResumedFrom("reconnect_scheduled") =>
          /\ stream'.pc = "sleep"
          /\ LastEnvelope(stream_envelopes').type = "sleep"
          /\ LastEnvelope(stream_envelopes').seconds
                = LastEnvelope(stream_envelopes).seconds

\* From the sleep envelope on, the generator ends at one of `ends`.
AfterSleep(ends) ==
    /\ ResumedFrom("sleep") => stream'.pc \in {"restored_health"} \cup ends
    /\ ResumedFrom("restored_health") => stream'.pc \in ends
    /\ (stream'.pc = "connect" /\ stream.pc # "connect") =>
          /\ stream_envelopes' = <<ConnectEnvelope>>
          /\ stream'.sessions = stream.sessions + 1

\* C33: after a TRANSIENT disconnect inside the retry window the stream
\* neither raises nor terminates: it emits reconnect_scheduled (attempt >=
\* 1, close_type transient_failure), then sleep with the same backoff, and
\* once resumed it reaches Connecting and emits the connect envelope of a
\* new session.
C33_TransientDisconnectReconnects ==
    [][ReconnectIsScheduled /\ AfterSleep({"connect"})]_vars

\* The same, with the limiter's error at Connecting as the second way on.
TransientDisconnectReconnectsOrRaises ==
    [][ReconnectIsScheduled /\ AfterSleep({"connect", "raised"})]_vars



(***************************************************************************)
(* C34: the health publisher during start().                               *)
(***************************************************************************)
\* A stage of start() was invoked in the step and returned.
StageCompleted(stage) ==
    /\ StartEvents' = Append(StartEvents, stage)
    /\ root'.pc # "raised"

\* The stages that set a field of LifecycleState when they return.
StageFlags(stage, state) ==
    CASE stage = "config" -> state.config_ready
      [] stage = "db" -> state.db_ready
      [] stage = "connectors" -> state.connectors_ready
      [] stage = "rate_limiter" -> state.rate_limiter_ready
      [] stage = "rest_service" -> state.rest_ready
      [] stage = "websocket_service" -> state.websocket_ready
      [] stage = "boot_rehydrate" ->
            state.rehydrated /\ state.strategy_enabled /\ state.execution_enabled
      [] stage = "consumer_starter" -> state.consumers_ready
      [] stage = "route_starter" ->
            state.routes_ready /\ state.tauri_ready /\ state.ui_ready
      [] OTHER -> TRUE

UnpublishedStages ==
    {"healthcheck", "rest_service.start", "websocket_service.start"}

\* The publisher is handed the state once, with the stage's flags set,
\* before anything else happens.
PublishedAfter(stage) ==
    /\ published' = Append(published, lifecycle')
    /\ StageFlags(stage, lifecycle')

\* C34: during start() the health publisher is invoked after each startup
\* stage and before the next stage begins, with a state that reflects the
\* stage just completed; for every stage of the startup order, the
\* dependency health checks, rest_service.start and websocket_service.start
\* included.
C34_PublishedAfterEveryStage ==
    [][\A i \in 1..Len(StartOrder) :
          StageCompleted(StartOrder[i]) => PublishedAfter(StartOrder[i])]_vars

\* What start() does: it publishes after the nine stages that set a field
\* of the state, and not after a health check or the start of a service.
PublishedAfterFlagStages ==
    [][\A i \in 1..Len(StartOrder) :
          StageCompleted(StartOrder[i]) =>
              IF StartOrder[i] \in UnpublishedStages
              THEN published' = published /\ lifecycle' = lifecycle
              ELSE PublishedAfter(StartOrder[i])]_vars



(***************************************************************************)
(* C35: messages of an unsupported channel.                                *)
(***************************************************************************)
\* The last call was for a message whose channel is neither orderbook_delta
\* nor trade.
UnsupportedChannelCall ==
    /\ md_call.calls > 0
    /\ ChannelOf(md_call.message) \notin {"orderbook_delta", "trade"}

\* C35: for every raw message whose channel is not orderbook_delta or
\* trade, whatever its other fields (a message with no timestamp field
\* included), process_market_data_message raises nothing, publishes
\* nothing and returns an empty list.
C35_UnsupportedChannelIsSkipped ==
    /\ [](UnsupportedChannelCall =>
            md_call.raised = NoneVal /\ md_call.returned = <<>>)
    /\ [][UnsupportedChannelCall' => event_bus' = event_bus]_vars

\* What holds: such a message is never published or returned, and it is
\* skipped without raising exactly when its sequence and timestamp fields
\* can be read.
UnsupportedChannelNeverPublished ==
    /\ [](UnsupportedChannelCall =>
            /\ md_call.returned = <<>>
            /\ md_call.raised = NoneVal <=>
                  /\ md_call.message.sequence # "x"
                  /\ md_call.message.timestamp \in
                        {"2024-01-01T00:00:00Z", "2024-01-01T00:00:00+00:00"})
    /\ [][UnsupportedChannelCall' => event_bus' = event_bus]_vars



(***************************************************************************)
(* C36: submit() concurrent with stop().                                   *)
(***************************************************************************)
\* stop() of a started writer returns in this step.
StopReturns ==
    /\ stopper.pc = "await"
    /\ stopper'.pc = "returned"

\* C36: every event accepted by submit() on a started writer is handled,
\* also when submit() runs while stop() is in progress: when stop()
\* returns, the queue holds neither an event nor a sentinel and every
\* event submitted so far has been handled.
C36_NothingLeftBehindStop ==
    [][StopReturns =>
          /\ writer_queue' = <<>>
          /\ 1..submitted' \subseteq {h.sid : h \in Range(handled')}]_vars

\* What holds: the events put before the sentinel have been handled when
\* stop() returns, and what is left in the queue was put after it.
StopHandlesEventsBeforeSentinel ==
    [][StopReturns =>
          /\ 1..stopper.mark \subseteq {h.sid : h \in Range(handled')}
          /\ \A i \in 1..Len(writer_queue') :
                writer_queue'[i].kind = "event"
                => writer_queue'[i].sid > stopper.mark]_vars



(***************************************************************************)
(* C37: conservation of non-critical events.                               *)
(***************************************************************************)
\* The number of non-critical entries (events or frames) of s after its
\* first `from` entries.
NonCriticalAfter(s, from) ==
    Cardinality({k \in (from + 1)..Len(s) : ~s[k].critical})

\* Non-critical events streamed to the client, since connect registered it,
\* while it was subscribed to their topic.
StreamedNonCritical(c) == NonCriticalAfter(ws_offered[c], ws_mark[c].offered)

\* Non-critical frames the client's flush calls have sent since then.
SentNonCritical(c) == NonCriticalAfter(ws_sent[c], ws_mark[c].sent)

QueuedNonCritical(c) == NonCriticalAfter(clients[c].queue, 0)

\* C37: for each connected client, the number of non-critical events
\* streamed to it while it was subscribed to their topic equals the number
\* already sent by flush plus the number still queued plus
\* dropped_non_critical.
C37_NonCriticalEventsConserved ==
    \A c \in Connected :
        StreamedNonCritical(c) =
            SentNonCritical(c) + QueuedNonCritical(c)
                + clients[c].dropped_non_critical

\* C37 witness: a client that was streamed three non-critical events, of
\* which one has been sent, one is queued and one was dropped.
C37_Witness ==
    /\ "c1" \in Connected
    /\ StreamedNonCritical("c1") = 3
    /\ SentNonCritical("c1") = 1
    /\ QueuedNonCritical("c1") = 1
    /\ clients["c1"].dropped_non_critical = 1



(***************************************************************************)
(* C38: a second run against an unchanged exchange snapshot.               *)
(***************************************************************************)
\* The run about to commit follows a completed run and has fetched the
\* orders and positions the tables already mirror: the exchange snapshot
\* is the one of the earlier run and nothing was changed locally since.
RerunOnSameSnapshot ==
    /\ RehydrateCommits
    /\ \E i \in 1..Len(rehydration_runs) :
           rehydration_runs[i].status = "completed"
    /\ MirrorsRemote

\* The run row written by the committing step is completed with no drift.
RecordsCompletedRunWithoutDrift ==
    \E i \in RunRows(rehydration_runs', rehydrator.boot_id) :
        /\ rehydration_runs'[i].status = "completed"
        /\ rehydration_runs'[i].drift_count = 0

\* C38: running boot_rehydrate a second time after a successful run, with
\* the same remote orders and positions and no local change in between,
\* changes no row of state_orders or state_positions, produces no drift
\* record, and records a completed run with drift_count = 0.
C38_RerunChangesNothing ==
    [][RerunOnSameSnapshot =>
          /\ state_orders' = state_orders
          /\ state_positions' = state_positions
          /\ reconciliation_event_ledger' = reconciliation_event_ledger
          /\ RecordsCompletedRunWithoutDrift]_vars

\* C38 as the code has it: such a run changes no row of state_orders,
\* keeps the keys, payloads and hashes of state_positions while writing
\* every position row again with the updated_at of this run, produces no
\* drift record and records a completed run with drift_count = 0.
C38_RerunRewritesOnlyPositionTimes ==
    [][RerunOnSameSnapshot =>
          /\ state_orders' = state_orders
          /\ DOMAIN state_positions' = DOMAIN state_positions
          /\ \A key \in DOMAIN state_positions :
                state_positions'[key] =
                    [state_positions[key] EXCEPT !.updated_at = rh_now']
          /\ reconciliation_event_ledger' = reconciliation_event_ledger
          /\ RecordsCompletedRunWithoutDrift]_vars

\* C38 witness: a second run has committed without drift on tables that
\* hold an open order written by an earlier run and a position row written
\* again by this one.
C38_Witness ==
    /\ rehydrator.pc = "committed"
    /\ Len(rehydration_runs) >= 2
    /\ rehydration_runs[Len(rehydration_runs)].status = "completed"
    /\ rehydration_runs[Len(rehydration_runs)].drift_count = 0
    /\ rehydration_runs[1].status = "completed"
    /\ rehydration_runs[1].drift_count > 0
    /\ \E id \in OpenOrderIds : state_orders[id].updated_at < rh_now
    /\ \E key \in DOMAIN state_positions :
           /\ state_positions[key].updated_at = rh_now
           /\ state_positions[key].updated_at > rehydration_runs[1].started_at + 1



(***************************************************************************)
(* C39: the strategy and execution flags of a sidecar that is not up.      *)
(***************************************************************************)
\* start() has aborted with last_error set, or shutdown() has reached the
\* stopped phase.
SidecarIsDown ==
    \/ root.pc = "raised" /\ lifecycle.last_error # NoneVal
    \/ lifecycle.shutdown_phase = "stopped"

\* C39: in every reachable lifecycle state, whenever start() has aborted
\* with last_error set or shutdown() has reached the stopped phase,
\* strategy_enabled and execution_enabled are both false.
C39_FlagsFalseWhenDown ==
    SidecarIsDown =>
        ~lifecycle.strategy_enabled /\ ~lifecycle.execution_enabled

\* What holds: the two flags are set together by the rehydration stage and
\* never cleared; an abort or a shutdown clears tauri_ready and ui_ready.
FlagsFollowRehydration ==
    /\ lifecycle.strategy_enabled = lifecycle.rehydrated
    /\ lifecycle.execution_enabled = lifecycle.rehydrated
    /\ SidecarIsDown => ~lifecycle.tauri_ready /\ ~lifecycle.ui_ready



(***************************************************************************)
(* C40: every request sent follows an acquire of the method's bucket.      *)
(***************************************************************************)
\* The passes of the current call that handed a request to the session,
\* and those whose acquire returned.
SentAttempts == {i \in 1..Len(http_attempts) : http_attempts[i].sent}

AcquiredAttempts == {i \in 1..Len(http_attempts) : http_attempts[i].acquired}

\* C40: every request handed to the session is preceded, within the same
\* attempt, by a successful acquire on the bucket chosen by method (GET
\* uses read, every other method uses write); an attempt whose acquire
\* fails with rate-limit-exceeded sends nothing, is mapped to rate_limited
\* and counts against max_attempts; the requests sent by one call never
\* number more than its successful acquires.
C40_SendsFollowAcquire ==
    /\ \A i \in 1..Len(http_attempts) :
           LET a == http_attempts[i]
           IN  /\ a.bucket = IF http.method \in {"GET", "get"}
                             THEN "read" ELSE "write"
               /\ a.sent => a.acquired
               /\ ~a.acquired =>
                     /\ ~a.sent
                     /\ a.code = "rate_limited"
                     /\ i < Len(http_attempts) => i < http.max_attempts
    /\ http.attempts = Len(http_attempts)
    /\ Cardinality(SentAttempts) <= Cardinality(AcquiredAttempts)

\* C40 witness: a POST whose first pass was dropped by the limiter and
\* whose second pass acquired the write bucket and was sent.
C40_Witness ==
    /\ http.method = "POST"
    /\ http.pc = "returned"
    /\ Len(http_attempts) = 2
    /\ ~http_attempts[1].acquired
    /\ ~http_attempts[1].sent
    /\ http_attempts[2].acquired
    /\ http_attempts[2].sent
    /\ http_attempts[2].bucket = "write"


=============================================================================
